---- MODULE Spec2Model ----
(***************************************************************************)
(* Verification model of the WebAR capture application (class WebARApp).   *)
(*                                                                         *)
(* The repository holds several revisions of the same class.  The model    *)
(* follows the latest revision in src/src/js/main.js (lines 783-2427) and, *)
(* for the recording health check and the frame-polling fallback, the      *)
(* revision in src/unnamed/part_000 (lines 1277-2649).                     *)
(*                                                                         *)
(* The module contains several specifications over one set of variables:   *)
(*   SpecFit     the compositor (updateCompositeCanvas)                    *)
(*   SpecLayout  the size resolver (updateCanvasSize)                      *)
(*   SpecRender  the render loop (render)                                  *)
(*   SpecRec     the recording session of main.js                          *)
(*   SpecHealth  the recording session of part_000 with its health check   *)
(*   SpecFallback the frame-polling fallback of part_000                   *)
(*   SpecTrack   the tracking stabilization (updateTrackingStabilization)  *)
(*   SpecShot    screenshots (takeScreenshot, captureFromCanvas,           *)
(*               captureFromVideo)                                         *)
(*   SpecPause   pause and resume with the render loop and the update loop *)
(*               of a recording                                            *)
(*   SpecResume  pause, resume and the timers behind a resume, with        *)
(*               fairness of the timers                                    *)
(*   SpecWait    waitForVideoReady, with fairness of its poll timer        *)
(*   SpecInit    start-up (init, preloadModel, startAR)                    *)
(* Each specification leaves the variables of the others unchanged.        *)
(*                                                                         *)
(* JavaScript numbers are modelled as exact rationals <<n, d>>, d > 0;     *)
(* assigning a number to canvas.width / canvas.height truncates it to an   *)
(* unsigned integer as the DOM does.                                       *)
(***************************************************************************)
EXTENDS Integers, Sequences, FiniteSets, TLC

(***************************************************************************)
(* Exact rational arithmetic standing for JavaScript number arithmetic.    *)
(***************************************************************************)
RECURSIVE Gcd(_, _)
Gcd(a, b) == IF b = 0 THEN a ELSE Gcd(b, a % b)

Abs(n) == IF n < 0 THEN -n ELSE n

\* the fraction n/d in lowest terms with a positive denominator
Frac(n, d) ==
    LET g == Gcd(Abs(n), Abs(d))
        s == IF d < 0 THEN -1 ELSE 1
    IN  IF g = 0 THEN <<0, 1>> ELSE <<(s * n) \div g, (s * d) \div g>>

FInt(n) == <<n, 1>>
FMul(a, b) == Frac(a[1] * b[1], a[2] * b[2])
FDiv(a, b) == Frac(a[1] * b[2], a[2] * b[1])
FAdd(a, b) == Frac(a[1] * b[2] + b[1] * a[2], a[2] * b[2])
FSub(a, b) == Frac(a[1] * b[2] - b[1] * a[2], a[2] * b[2])
FLt(a, b) == a[1] * b[2] < b[1] * a[2]
FLe(a, b) == a[1] * b[2] <= b[1] * a[2]
FEq(a, b) == a[1] * b[2] = b[1] * a[2]
FMin(a, b) == IF FLt(b, a) THEN b ELSE a
FMax(a, b) == IF FLt(a, b) THEN b ELSE a

\* conversion of a non-negative number to the unsigned long of canvas.width
ToUnsignedLong(a) == a[1] \div a[2]

(***************************************************************************)
(* Bounds of the model.                                                    *)
(***************************************************************************)
\* sizes of the video frame, the renderer canvas and the surface in SpecFit
MaxDim == 3
\* refresh rate of the display, in requestAnimationFrame ticks per second
DisplayHz == 60
\* recording sessions (invocations of startRecording) in one behaviour
MaxSessions == 2
\* chunks kept in recordedChunks, and the size of one chunk
MaxChunks == 2
MaxChunkSize == 1
\* recorders created in one behaviour of SpecHealth, and the time such a
\* behaviour takes in units of RestartDelay
MaxRecorders == 3
MaxTicks == 19
\* SpecTrack: the clock advances in steps of ClockStep ms, MaxClockSteps
\* times; the tracker reports positions 0..MaxPose
ClockStep == 50
MaxClockSteps == 3
MaxPose == 1
\* SpecShot: stills handed to downloadImage in one behaviour
MaxStills == 2
\* pending timers of onAppResume and setupCompositeCanvas
MaxSetupTimers == 3
\* at most MaxFrames frames are rendered while a target stays in view; a
\* coordinate is kept to
\* 1 / PoseGrid, as a double keeps 53 bits
MaxFrames == 6
PoseGrid == 10
\* SpecFallback: at most MaxFallbackFrames frames are captured, and at most
\* MaxPendingBlobs calls of toBlob are under way at a time
MaxFallbackFrames == 4
MaxPendingBlobs == 3
\* viewport sizes in SpecLayout: 1, 390, 844 and k * ViewStep
ViewStep == 320
MaxViewSteps == 6

NoRect == [offsetX |-> <<0, 1>>, offsetY |-> <<0, 1>>,
           drawWidth |-> <<0, 1>>, drawHeight |-> <<0, 1>>]

VARIABLES
    \* ---- the composite surface
    compositeCanvas,   \* TRUE when this.compositeCanvas / compositeCtx exist
    canvasWidth,       \* this.compositeCanvas.width  (device pixels)
    canvasHeight,      \* this.compositeCanvas.height (device pixels)
    surface,           \* what the last updateCompositeCanvas drew
    \* ---- the sources of the compositor
    videoElement,      \* TRUE when this.videoElement is set
    videoWidth,        \* this.videoElement.videoWidth  (0: no decoded frame)
    videoHeight,       \* this.videoElement.videoHeight
    rendererWidth,     \* this.renderer.domElement.width
    rendererHeight,    \* this.renderer.domElement.height
    \* ---- the viewport
    innerWidth,        \* window.innerWidth
    innerHeight,       \* window.innerHeight
    devicePixelRatio,  \* window.devicePixelRatio, a fraction
    isMobile,          \* this.isMobile
    resizeTimeout,     \* TRUE when a debounced updateCanvasSize is pending
    \* ---- the render loop
    started,           \* startAR has called render
    pendingRender,     \* number of pending requestAnimationFrame(render)
    isAppActive,       \* this.isAppActive
    ticksSinceFrame,   \* display ticks since this.lastFrameTime
    ticksSinceCanvas,  \* display ticks since this.lastCanvasUpdate
    lastFrame,         \* how the last invocation of render ended
    resumeTimer,       \* TRUE when onAppResume's 500 ms timer is pending
    \* ---- the recording session (fields shared by both revisions)
    mediaRecorder,     \* this.mediaRecorder: a recorder id, 0 for null
    recordedChunks,    \* this.recordedChunks: the sizes of the chunks
    isRecording,       \* this.isRecording
    rec,               \* the MediaRecorder objects created so far
    status,            \* the status toast: [msg, isError]
    downloads,         \* number of downloads (link clicks, preview windows)
    recordBtnHidden,   \* the record button is hidden, the stop button shown
    \* ---- main.js: the asynchronous startRecording and the canvas shrink
    startPc,           \* where each invocation of startRecording stands
    originalCanvasSize,\* this.originalCanvasSize, NullSize for null
    outcome,           \* how each session ended: "none", "saved", "failed"
    nextSession,       \* id of the next session (invocation of startRecording)
    \* ---- part_000: health check and frame-polling fallback
    now,               \* Date.now(), in ms since the page was loaded
    recordingStartTime,\* this.recordingStartTime
    lastDataTime,      \* this.lastDataTime
    dataReceived,      \* this.dataReceived
    recordingAttempts, \* this.recordingAttempts
    recordingTimeout,  \* this.recordingTimeout: a timer id, NoTimer for null
    timers,            \* the pending timers set by setTimeout: [id, kind, at]
    fallbackRecording, \* this.fallbackRecording
    fallbackFrames,    \* number of frames in this.fallbackFrames
    fallbackInterval,  \* TRUE when the 100 ms capture interval is set
    fallbackSave,      \* the image load started by saveFallbackRecording
    noDataTimeouts,    \* health checks that found no data since the request
    fallbackStarts,    \* invocations of startFallbackRecording since then
    \* ---- main.js: tracking stabilization
    anchor,            \* this.anchor is set (the model was loaded)
    isTargetVisible,   \* this.isTargetVisible
    trackingConfidence,\* this.trackingConfidence
    lastStableTime,    \* this.lastStableTime
    positionHistory,   \* this.positionHistory
    rotationHistory,   \* this.rotationHistory
    anchorPosition,    \* this.anchor.group.position (one coordinate)
    anchorRotation,    \* this.anchor.group.rotation (one coordinate)
    targetPosition,    \* this.targetPosition
    targetRotation,    \* this.targetRotation
    frames,            \* frames rendered since the target was last found
    \* ---- main.js: screenshots
    readyState,        \* this.videoElement.readyState
    screenshotPending, \* the pending animation-frame callback of a screenshot
    still,             \* what the last screenshot shows
    dataURL,           \* length of the data URL the last screenshot extracted
    imageDownloads,    \* calls of downloadImage so far
    \* ---- part_000: the re-encoding of saveFallbackRecording
    reencoder,         \* the temporary recorder and its drawNextFrame loop
    \* ---- main.js: the file saveRecording wrote last
    savedFile,         \* its extension, blob type and the container of its bytes
    \* ---- main.js: start-up, pause and resume, waitForVideoReady
    initPc,            \* position of init and of the startAR it calls
    uiInstalled,       \* setupUI has installed the handlers
    unhandledRejection,\* a promise was rejected and nothing handles it
    mindarThree,       \* this.mindarThree is set
    isStarted,         \* this.mindarThree.isStarted
    startInvoked,      \* the last reinitializeVideoAndCanvas called start
    setupTimer,        \* the pending timer of setupCompositeCanvas
    recordingLoop,     \* a callback of recordingUpdateLoop is pending
    videoInDom,        \* #ar-container holds a video element
    waitPc,            \* position of waitForVideoReady
    attempts,          \* attempts of waitForVideoReady
    \* ---- main.js: the listeners and timers of setupCompositeCanvas
    resizeListenerAdded, \* this.resizeListenerAdded
    resizeListeners,   \* resize (and orientationchange) listeners on window
    setupTimers        \* pending timers by kind, each one counted

surfVars == <<compositeCanvas, canvasWidth, canvasHeight, surface>>
videoVars == <<videoElement, videoWidth, videoHeight>>
rendererVars == <<rendererWidth, rendererHeight>>
layoutVars == <<innerWidth, innerHeight, devicePixelRatio, isMobile,
                resizeTimeout>>
renderVars == <<started, pendingRender, isAppActive, ticksSinceFrame,
                ticksSinceCanvas, lastFrame, resumeTimer>>
recVars == <<mediaRecorder, recordedChunks, isRecording, rec, status,
             downloads, recordBtnHidden>>
startVars == <<startPc, originalCanvasSize, outcome, nextSession>>
healthVars == <<now, recordingStartTime, lastDataTime, dataReceived,
                recordingAttempts, recordingTimeout, timers,
                fallbackRecording, fallbackFrames, fallbackInterval,
                fallbackSave, noDataTimeouts, fallbackStarts>>
trackVars == <<anchor, isTargetVisible, trackingConfidence, lastStableTime,
               positionHistory, rotationHistory, anchorPosition,
               anchorRotation, targetPosition, targetRotation, frames>>
shotVars == <<readyState, screenshotPending, still, dataURL, imageDownloads>>
lifeVars == <<initPc, uiInstalled, unhandledRejection, mindarThree, isStarted,
              startInvoked, setupTimer, recordingLoop, videoInDom, waitPc,
              attempts>>
setupVars == <<resizeListenerAdded, resizeListeners, setupTimers>>
mediaVars == <<trackVars, shotVars, reencoder, savedFile, setupVars>>
extraVars == <<mediaVars, lifeVars>>
vars == <<surfVars, videoVars, rendererVars, layoutVars, renderVars, recVars,
          startVars, healthVars, extraVars>>

(***************************************************************************)
(* Video Compositor: drawVideoWithAspectRatio and updateCompositeCanvas.   *)
(***************************************************************************)
\* a fit that takes the branches of the cover fit the other way round
DrawVideoFitSwapped(vW, vH, cW, cH) ==
    LET videoAspect == Frac(vW, vH)
        canvasAspect == Frac(cW, cH)
    IN  IF FLt(videoAspect, canvasAspect)
        THEN LET drawWidth == FMul(FInt(cH), videoAspect)
             IN  [offsetX |-> FDiv(FSub(FInt(cW), drawWidth), FInt(2)),
                  offsetY |-> FInt(0),
                  drawWidth |-> drawWidth,
                  drawHeight |-> FInt(cH)]
        ELSE LET drawHeight == FDiv(FInt(cW), videoAspect)
             IN  [offsetX |-> FInt(0),
                  offsetY |-> FDiv(FSub(FInt(cH), drawHeight), FInt(2)),
                  drawWidth |-> FInt(cW),
                  drawHeight |-> drawHeight]

\* destination rectangle of the camera frame ("cover" fit)
DrawVideoWithAspectRatio(vW, vH, cW, cH) ==
    LET videoAspect == Frac(vW, vH)
        canvasAspect == Frac(cW, cH)
    IN  IF FLt(canvasAspect, videoAspect)
        THEN LET drawWidth == FMul(FInt(cH), videoAspect)
             IN  [offsetX |-> FDiv(FSub(FInt(cW), drawWidth), FInt(2)),
                  offsetY |-> FInt(0),
                  drawWidth |-> drawWidth,
                  drawHeight |-> FInt(cH)]
        ELSE LET drawHeight == FDiv(FInt(cW), videoAspect)
             IN  [offsetX |-> FInt(0),
                  offsetY |-> FDiv(FSub(FInt(cH), drawHeight), FInt(2)),
                  drawWidth |-> FInt(cW),
                  drawHeight |-> drawHeight]

\* a fit that takes the branches of the contain fit the other way round
DrawRendererFitSwapped(rW, rH, cW, cH) ==
    LET rendererAspect == Frac(rW, rH)
        canvasAspect == Frac(cW, cH)
    IN  IF FLt(rendererAspect, canvasAspect)
        THEN LET drawHeight == FDiv(FInt(cW), rendererAspect)
             IN  [offsetX |-> FInt(0),
                  offsetY |-> FDiv(FSub(FInt(cH), drawHeight), FInt(2)),
                  drawWidth |-> FInt(cW),
                  drawHeight |-> drawHeight]
        ELSE LET drawWidth == FMul(FInt(cH), rendererAspect)
             IN  [offsetX |-> FDiv(FSub(FInt(cW), drawWidth), FInt(2)),
                  offsetY |-> FInt(0),
                  drawWidth |-> drawWidth,
                  drawHeight |-> FInt(cH)]

\* destination rectangle of the rendered 3D frame ("contain" fit)
DrawRendererLayer(rW, rH, cW, cH) ==
    LET rendererAspect == Frac(rW, rH)
        canvasAspect == Frac(cW, cH)
    IN  IF FLt(canvasAspect, rendererAspect)
        THEN LET drawHeight == FDiv(FInt(cW), rendererAspect)
             IN  [offsetX |-> FInt(0),
                  offsetY |-> FDiv(FSub(FInt(cH), drawHeight), FInt(2)),
                  drawWidth |-> FInt(cW),
                  drawHeight |-> drawHeight]
        ELSE LET drawWidth == FMul(FInt(cH), rendererAspect)
             IN  [offsetX |-> FDiv(FSub(FInt(cW), drawWidth), FInt(2)),
                  offsetY |-> FInt(0),
                  drawWidth |-> drawWidth,
                  drawHeight |-> FInt(cH)]

\* the surface after clearRect
ClearedSurfaceOf(cw, ch) ==
    [background |-> "clear", video |-> NoRect, videoSize |-> <<0, 0>>,
     layer |-> NoRect, layerSource |-> <<0, 0, 0, 0>>, layerCoats |-> 0,
     size |-> <<cw, ch>>]

ClearedSurface == ClearedSurfaceOf(canvasWidth, canvasHeight)

\* the 3D layer drawn over s on a canvas of cw x ch; skipped when the
\* renderer canvas is empty.  The layer is drawn source-over: layerCoats
\* counts how often it has been painted since the surface was last cleared.
WithRendererLayer(s, cw, ch) ==
    IF rendererWidth > 0 /\ rendererHeight > 0
    THEN LET r == DrawRendererLayer(rendererWidth, rendererHeight, cw, ch)
         IN  IF FLt(FInt(0), r.drawWidth) /\ FLt(FInt(0), r.drawHeight)
             THEN [s EXCEPT !.layer = r,
                            !.layerSource = <<0, 0, rendererWidth,
                                              rendererHeight>>,
                            !.layerCoats = @ + 1]
             ELSE s
    ELSE s

\* an updateCompositeCanvas that does not clear the surface and paints no
\* background: the 3D layer is drawn over what the surface prev held
CompositeSurfaceNoClear(prev, cw, ch, hasVideo, drawThrows) ==
    IF cw = 0 \/ ch = 0 \/ ~hasVideo
    THEN prev
    ELSE WithRendererLayer(prev, cw, ch)

\* what updateCompositeCanvas leaves on a canvas of cw x ch that held prev;
\* hasVideo: a video element is known, drawThrows: ctx.drawImage of the
\* video throws.  clearRect comes first, so nothing of prev is kept.
CompositeSurface(prev, cw, ch, hasVideo, drawThrows) ==
    IF cw = 0 \/ ch = 0
    THEN ClearedSurfaceOf(cw, ch)    \* nothing shows on an empty canvas
    ELSE IF ~hasVideo
    THEN [ClearedSurfaceOf(cw, ch) EXCEPT !.background = "placeholder"]
    ELSE IF videoWidth > 0 /\ videoHeight > 0
         THEN IF drawThrows
              THEN WithRendererLayer(
                       [ClearedSurfaceOf(cw, ch) EXCEPT
                           !.background = "testPattern"], cw, ch)
              ELSE WithRendererLayer(
                       [ClearedSurfaceOf(cw, ch) EXCEPT
                           !.background = "black",
                           !.video = DrawVideoWithAspectRatio(
                               videoWidth, videoHeight, cw, ch),
                           !.videoSize = <<videoWidth, videoHeight>>],
                       cw, ch)
         ELSE WithRendererLayer(
                  [ClearedSurfaceOf(cw, ch) EXCEPT
                      !.background = "placeholder"], cw, ch)

\* the body of updateCompositeCanvas; found: the outcome of looking the
\* video element up again.  Every exception is caught inside, none leaves
\* the method.  Its call of updateCanvasSize for a canvas of width 0 during
\* a recording is left out: in no specification below is a recording under
\* way while the canvas has width 0.
DoUpdateCompositeCanvas(found, drawThrows) ==
    IF ~compositeCanvas
    THEN UNCHANGED <<videoElement, surface>>
    ELSE /\ videoElement' = (videoElement \/ found)
         /\ surface' = CompositeSurface(surface, canvasWidth, canvasHeight,
                                        videoElement', drawThrows)

\* updateCompositeCanvas called from a video event or a timer
UpdateCompositeCanvas(found, drawThrows) ==
    /\ compositeCanvas
    /\ DoUpdateCompositeCanvas(found, drawThrows)
    /\ UNCHANGED <<compositeCanvas, canvasWidth, canvasHeight, videoWidth,
                   videoHeight>>
    /\ UNCHANGED <<rendererVars, extraVars, layoutVars, renderVars, recVars, startVars,
                   healthVars>>

\* the camera delivers a frame size (0, 0 before the metadata is loaded)
VideoResize(w, h) ==
    /\ videoElement
    /\ <<w, h>> # <<videoWidth, videoHeight>>
    /\ videoWidth' = w /\ videoHeight' = h
    /\ UNCHANGED videoElement
    /\ UNCHANGED <<surfVars, rendererVars, extraVars, layoutVars, renderVars, recVars,
                   startVars, healthVars>>

(***************************************************************************)
(* Initial values of the parts a specification does not exercise.          *)
(***************************************************************************)
NullSize == <<-1, -1>>
NoTimer == -1
NoStatus == [msg |-> "none", isError |-> FALSE]

RenderIdle ==
    /\ started = FALSE /\ pendingRender = 0 /\ isAppActive = TRUE
    /\ ticksSinceFrame = 0 /\ ticksSinceCanvas = 0 /\ lastFrame = "none"
    /\ resumeTimer = FALSE

RecIdle ==
    /\ mediaRecorder = 0 /\ recordedChunks = <<>> /\ isRecording = FALSE
    /\ rec = <<>> /\ status = NoStatus /\ downloads = 0
    /\ recordBtnHidden = FALSE

StartIdle ==
    /\ startPc = <<>> /\ originalCanvasSize = NullSize /\ outcome = <<>>
    /\ nextSession = 1

HealthIdle ==
    /\ now = 0 /\ recordingStartTime = 0 /\ lastDataTime = 0
    /\ dataReceived = FALSE /\ recordingAttempts = 0
    /\ recordingTimeout = NoTimer /\ timers = {}
    /\ fallbackRecording = FALSE /\ fallbackFrames = 0
    /\ fallbackSave = "none"
    /\ fallbackInterval = FALSE /\ noDataTimeouts = 0 /\ fallbackStarts = 0

NoStill ==
    [source |-> "none", background |-> "none", hasVideo |-> FALSE,
     heldFrame |-> FALSE]
\* no screenshot under way; heldFrame: when takeScreenshot was called the
\* video had no frame size and the surface showed a camera frame
NoShot == [pc |-> "none", heldFrame |-> FALSE]

TrackIdle ==
    /\ anchor = FALSE /\ isTargetVisible = FALSE
    /\ trackingConfidence = <<0, 1>> /\ lastStableTime = 0
    /\ positionHistory = <<>> /\ rotationHistory = <<>>
    /\ anchorPosition = <<0, 1>> /\ anchorRotation = <<0, 1>>
    /\ targetPosition = <<0, 1>> /\ targetRotation = <<0, 1>>
    /\ frames = 0

ShotIdle ==
    /\ readyState = 4 /\ screenshotPending = NoShot /\ still = NoStill
    /\ dataURL = 0 /\ imageDownloads = 0

\* no re-encoding under way.  pendingBlobs: toBlob calls of
\* captureFallbackFrame that have not called back; buffered: the length of
\* fallbackFrames when stopFallbackRecording found frames to save; drawn:
\* the frames drawn into the stream of the temporary recorder
NoReencoder ==
    [state |-> "none", pc |-> "none", frameIndex |-> 0, drawn |-> 0,
     buffered |-> 0, pendingBlobs |-> 0]

NoFile == [extension |-> "none", mimeType |-> "none", container |-> "none"]

\* the application is set up and runs, nothing is pending
LifeIdle ==
    /\ initPc = "done" /\ uiInstalled = TRUE /\ unhandledRejection = FALSE
    /\ mindarThree = TRUE /\ isStarted = TRUE /\ startInvoked = FALSE
    /\ setupTimer = "none" /\ recordingLoop = FALSE /\ videoInDom = TRUE
    /\ waitPc = "none" /\ attempts = 0

\* no timer of a resume or of setupCompositeCanvas is counted
NoSetupTimers == [resume |-> 0, create |-> 0, retry |-> 0]

\* the window has the resize listeners when the timer of
\* setupCompositeCanvas has made a canvas
SetupIdle ==
    /\ resizeListenerAdded = compositeCanvas
    /\ resizeListeners = (IF compositeCanvas THEN 1 ELSE 0)
    /\ setupTimers = NoSetupTimers

ExtraIdle ==
    /\ TrackIdle /\ ShotIdle /\ reencoder = NoReencoder /\ savedFile = NoFile
    /\ LifeIdle /\ SetupIdle

Dims == 1..MaxDim
\* a frame size: none yet, or positive in both dimensions
FrameSizes == {<<0, 0>>} \cup (Dims \X Dims)

FitInit ==
    /\ compositeCanvas = TRUE
    /\ canvasWidth \in Dims /\ canvasHeight \in Dims
    /\ videoElement \in BOOLEAN
    /\ videoWidth = 0 /\ videoHeight = 0
    /\ \E s \in FrameSizes : rendererWidth = s[1] /\ rendererHeight = s[2]
    /\ surface = ClearedSurface
    /\ innerWidth = canvasWidth /\ innerHeight = canvasHeight
    /\ devicePixelRatio = <<1, 1>>
    /\ isMobile = FALSE
    /\ resizeTimeout = FALSE
    /\ RenderIdle /\ RecIdle /\ StartIdle /\ HealthIdle /\ ExtraIdle

FitNext ==
    \/ \E found \in BOOLEAN, drawThrows \in BOOLEAN :
           UpdateCompositeCanvas(found, drawThrows)
    \/ \E s \in FrameSizes : VideoResize(s[1], s[2])

SpecFit == FitInit /\ [][FitNext]_vars

\* the surface holds a camera frame drawn by drawVideoWithAspectRatio
VideoDrawn == surface.videoSize # <<0, 0>>
\* the surface holds a 3D layer drawn by updateCompositeCanvas
LayerDrawn == surface.layerSource # <<0, 0, 0, 0>>

\* C9: whenever the camera frame has been drawn, its destination rectangle
\* contains the whole surface rectangle [0,W]x[0,H] and has the aspect ratio
\* of the video, so the frame covers the surface (cover fit).
C9_CoverFit ==
    VideoDrawn =>
        LET r == surface.video
            W == surface.size[1]
            H == surface.size[2]
        IN  /\ FLe(r.offsetX, FInt(0))
            /\ FLe(r.offsetY, FInt(0))
            /\ FLe(FInt(W), FAdd(r.offsetX, r.drawWidth))
            /\ FLe(FInt(H), FAdd(r.offsetY, r.drawHeight))
            /\ FEq(FMul(r.drawWidth, FInt(surface.videoSize[2])),
                   FMul(r.drawHeight, FInt(surface.videoSize[1])))

\* a camera frame wider than the surface was drawn and is cropped on both
\* sides
C9_Witness ==
    /\ VideoDrawn
    /\ FLt(surface.video.offsetX, FInt(0))
    /\ FLt(FInt(surface.size[1]), surface.video.drawWidth)

\* C10: whenever the 3D layer has been drawn, its destination rectangle lies
\* inside the surface rectangle, is centred in it, has the aspect ratio of
\* the renderer canvas, and its source rectangle is the whole renderer
\* canvas (contain fit, nothing cropped).
C10_ContainFit ==
    LayerDrawn =>
        LET r == surface.layer
            W == surface.size[1]
            H == surface.size[2]
        IN  /\ FLe(FInt(0), r.offsetX)
            /\ FLe(FInt(0), r.offsetY)
            /\ FLe(FAdd(r.offsetX, r.drawWidth), FInt(W))
            /\ FLe(FAdd(r.offsetY, r.drawHeight), FInt(H))
            /\ FEq(FAdd(FAdd(r.offsetX, r.offsetX), r.drawWidth), FInt(W))
            /\ FEq(FAdd(FAdd(r.offsetY, r.offsetY), r.drawHeight), FInt(H))
            /\ FEq(FMul(r.drawWidth, FInt(rendererHeight)),
                   FMul(r.drawHeight, FInt(rendererWidth)))
            /\ surface.layerSource = <<0, 0, rendererWidth, rendererHeight>>

\* a 3D frame wider than the surface was drawn letterboxed, with free bands
\* above and below it
C10_Witness ==
    /\ LayerDrawn
    /\ FLt(FInt(0), surface.layer.offsetY)
    /\ FLt(surface.layer.drawHeight, FInt(surface.size[2]))

\* C11: updateCompositeCanvas is idempotent on unchanged inputs: whatever
\* the surface holds, composing the same video frame and the same 3D frame
\* on the same surface size a second time leaves exactly the content the
\* first call left.
C11_CompositeIdempotent ==
    \A found \in BOOLEAN, drawThrows \in BOOLEAN :
        LET hasVideo == videoElement \/ found
            once == CompositeSurface(surface, canvasWidth, canvasHeight,
                                     hasVideo, drawThrows)
            twice == CompositeSurface(once, canvasWidth, canvasHeight,
                                      hasVideo, drawThrows)
        IN  twice = once

\* the surface holds a composed camera frame with the 3D layer over it, and
\* composing the same inputs again gives that content
C11_Witness ==
    /\ VideoDrawn /\ LayerDrawn
    /\ surface.layerCoats = 1
    /\ surface = CompositeSurface(surface, canvasWidth, canvasHeight,
                                  videoElement, FALSE)

(***************************************************************************)
(* Size/Layout Resolver: updateCanvasSize.                                 *)
(***************************************************************************)
maxMobileWidth == 1280
maxMobileHeight == 720
minWidthCss == 320
minHeightCss == 240

\* targetWidth and targetHeight of updateCanvasSize as exact numbers, each
\* with a flag telling that it is the result of a multiplication by a
\* non-integer factor (which a JavaScript double holds only approximately)
TargetSize(vw, vh, pr, mobile) ==
    LET tw0 == FMul(FInt(vw), pr)
        th0 == FMul(FInt(vh), pr)
        frac == pr[2] # 1
    IN  IF mobile
        THEN LET wide == FLt(FInt(maxMobileWidth), tw0)
                 tw1 == IF wide THEN FInt(maxMobileWidth) ELSE tw0
                 th1 == IF wide
                        THEN FMul(th0, FDiv(FInt(maxMobileWidth), tw0))
                        ELSE th0
                 tall == FLt(FInt(maxMobileHeight), th1)
                 th2 == IF tall THEN FInt(maxMobileHeight) ELSE th1
                 tw2 == IF tall
                        THEN FMul(tw1, FDiv(FInt(maxMobileHeight), th1))
                        ELSE tw1
             IN  <<tw2, th2,
                   tall \/ (~wide /\ frac),
                   ~tall /\ (wide \/ frac)>>
        ELSE <<FMax(tw0, FMul(FInt(minWidthCss), pr)),
               FMax(th0, FMul(FInt(minHeightCss), pr)),
               frac, frac>>

\* the values canvas.width can take when the number a is assigned to it:
\* a truncated; a double that stands for the integer k after an inexact
\* multiplication may lie just below k and is then truncated to k - 1
CanvasDimension(a, inexact) ==
    IF inexact /\ a[2] = 1 /\ a[1] >= 1
    THEN {a[1] - 1, a[1]}
    ELSE {ToUnsignedLong(a)}

\* the assignments of updateCanvasSize; a canvas is cleared when it is sized
ApplyCanvasSize ==
    LET t == TargetSize(innerWidth, innerHeight, devicePixelRatio, isMobile)
    IN  /\ canvasWidth' \in CanvasDimension(t[1], t[3])
        /\ canvasHeight' \in CanvasDimension(t[2], t[4])
        /\ surface' = [ClearedSurface EXCEPT
                          !.size = <<canvasWidth', canvasHeight'>>]

\* a registration that does not look at this.resizeListenerAdded
RegistersAlways == TRUE

\* the test of setupCompositeCanvas before it registers the resize and the
\* orientationchange listener
RegistersListeners == ~resizeListenerAdded

\* the end of the timer body of setupCompositeCanvas: the listeners are
\* registered unless the flag is set, and the flag is set
AddResizeListeners ==
    /\ resizeListeners' = IF RegistersListeners THEN resizeListeners + 1
                                                ELSE resizeListeners
    /\ resizeListenerAdded' = TRUE

\* setupCompositeCanvas (timer body): the canvas is created and sized
SetupCompositeCanvas ==
    /\ ~compositeCanvas
    /\ compositeCanvas' = TRUE
    /\ videoElement' = TRUE      \* found in the container, else it retries
    /\ ApplyCanvasSize
    /\ AddResizeListeners
    /\ UNCHANGED <<videoWidth, videoHeight>>
    /\ UNCHANGED <<rendererVars, trackVars, shotVars, reencoder, savedFile,
                   setupTimers, lifeVars, layoutVars, renderVars, recVars,
                   startVars, healthVars>>

\* the window is resized or rotated; the debounced handler is (re)armed
Resize(w, h) ==
    /\ <<w, h>> # <<innerWidth, innerHeight>>
    /\ innerWidth' = w /\ innerHeight' = h
    /\ resizeTimeout' = compositeCanvas
    /\ UNCHANGED <<devicePixelRatio, isMobile>>
    /\ UNCHANGED <<surfVars, videoVars, rendererVars, extraVars, renderVars, recVars,
                   startVars, healthVars>>

\* the debounced resize handler runs updateCanvasSize
ResizeTimer ==
    /\ resizeTimeout
    /\ resizeTimeout' = FALSE
    /\ IF compositeCanvas
       THEN ApplyCanvasSize
       ELSE UNCHANGED <<canvasWidth, canvasHeight, surface>>
    /\ UNCHANGED compositeCanvas
    /\ UNCHANGED <<innerWidth, innerHeight, devicePixelRatio, isMobile>>
    /\ UNCHANGED <<videoVars, rendererVars, extraVars, renderVars, recVars, startVars,
                   healthVars>>

ViewSizes == {1, 390, 844} \cup {k * ViewStep : k \in 1..MaxViewSteps}
PixelRatios == {<<1, 1>>, <<4, 3>>, <<2, 1>>, <<3, 1>>}

LayoutInit ==
    /\ compositeCanvas = FALSE
    /\ canvasWidth = 0 /\ canvasHeight = 0
    /\ videoElement = FALSE
    /\ videoWidth = 0 /\ videoHeight = 0
    /\ rendererWidth = 0 /\ rendererHeight = 0
    /\ surface = ClearedSurface
    /\ innerWidth \in ViewSizes /\ innerHeight \in ViewSizes
    /\ devicePixelRatio \in PixelRatios
    /\ isMobile \in BOOLEAN
    /\ resizeTimeout = FALSE
    /\ RenderIdle /\ RecIdle /\ StartIdle /\ HealthIdle /\ ExtraIdle

LayoutNext ==
    \/ SetupCompositeCanvas
    \/ \E w \in ViewSizes, h \in ViewSizes : Resize(w, h)
    \/ ResizeTimer

SpecLayout == LayoutInit /\ [][LayoutNext]_vars

\* the canvas holds the size updateCanvasSize computed for the current viewport
CanvasSized == compositeCanvas /\ ~resizeTimeout

\* C7: the size updateCanvasSize assigns is positive in both dimensions;
\* on a mobile device it is at most 1280 x 720, on a desktop device it is at
\* least 320*pixelRatio x 240*pixelRatio (the floor taken in whole pixels,
\* as a canvas size is).
C7_SizeWithinBounds ==
    CanvasSized =>
        /\ canvasWidth > 0 /\ canvasHeight > 0
        /\ isMobile => /\ canvasWidth <= maxMobileWidth
                       /\ canvasHeight <= maxMobileHeight
        /\ ~isMobile =>
              /\ canvasWidth >=
                     ToUnsignedLong(FMul(FInt(minWidthCss), devicePixelRatio))
              /\ canvasHeight >=
                     ToUnsignedLong(FMul(FInt(minHeightCss), devicePixelRatio))

\* the line of aspect ratio vw:vh through the origin meets the pixel
\* [w, w+1] x [h, h+1]: w x h is vw:vh up to rounding to whole pixels
AspectWithinRounding(w, h, vw, vh) ==
    /\ w * vh <= (h + 1) * vw
    /\ h * vw <= (w + 1) * vh

\* C8: on both device classes the size updateCanvasSize assigns has the
\* aspect ratio of the viewport up to rounding to whole pixels, and
\* 390 x 844 at pixel ratio 3 on a mobile device gives 332 x 720.
C8_AspectPreserved ==
    CanvasSized =>
        /\ AspectWithinRounding(canvasWidth, canvasHeight,
                                innerWidth, innerHeight)
        /\ (isMobile /\ innerWidth = 390 /\ innerHeight = 844
                /\ devicePixelRatio = <<3, 1>>)
              => (canvasWidth = 332 /\ canvasHeight = 720)

(***************************************************************************)
(* The render loop: startAR and render.  Time is counted in display ticks; *)
(* the bookkeeping of updatePerformanceMonitor, which reads and writes     *)
(* only its own counters, is left out.                                     *)
(***************************************************************************)
TargetFPS == IF isMobile THEN 30 ELSE 60
\* this.frameInterval in display ticks
FrameTicks == DisplayHz \div TargetFPS
CanvasUpdateInterval == IF isMobile THEN 100 ELSE 50
\* this.canvasUpdateInterval in display ticks
CanvasTicks == (CanvasUpdateInterval * DisplayHz) \div 1000

\* the per-frame steps of render that can throw
ThrowStages == {"stabilization", "mixer", "animation", "render"}

\* a render that asks for the next frame only after its per-frame work
PendingAfterRenderLate(pending, threw) ==
    IF threw THEN pending ELSE pending + 1

\* the pending callbacks after one invocation of render: both paths call
\* requestAnimationFrame once, before any step that can throw
PendingAfterRender(pending, threw) == pending + 1

\* one invocation of render with pending callbacks p, t ticks after the last
\* frame and c ticks after the last canvas update
RenderBody(p, t, c, early, throwAt, found, drawThrows) ==
    IF early
    THEN /\ pendingRender' = PendingAfterRender(p, FALSE)
         /\ ticksSinceFrame' = t
         /\ ticksSinceCanvas' = c
         /\ lastFrame' = "skipped"
         /\ UNCHANGED <<videoElement, surface>>
    ELSE /\ pendingRender' =
               PendingAfterRender(p, isAppActive /\ throwAt \in ThrowStages)
         /\ ticksSinceFrame' = 0
         /\ IF ~isAppActive
            THEN /\ lastFrame' = "paused"
                 /\ ticksSinceCanvas' = c
                 /\ UNCHANGED <<videoElement, surface>>
            ELSE IF throwAt \in ThrowStages
            THEN /\ lastFrame' = throwAt
                 /\ ticksSinceCanvas' = c
                 /\ UNCHANGED <<videoElement, surface>>
            ELSE IF isRecording /\ compositeCanvas
            THEN /\ lastFrame' = "composited"
                 /\ ticksSinceCanvas' = c
                 /\ DoUpdateCompositeCanvas(found, drawThrows)
            ELSE IF compositeCanvas /\ c > CanvasTicks
            THEN /\ lastFrame' = "composited"
                 /\ ticksSinceCanvas' = 0
                 /\ DoUpdateCompositeCanvas(found, drawThrows)
            ELSE /\ lastFrame' = "rendered"
                 /\ ticksSinceCanvas' = c
                 /\ UNCHANGED <<videoElement, surface>>

Min(a, b) == IF a < b THEN a ELSE b

\* startAR: the first, direct call of render (lastFrameTime is 0, so the
\* frame-rate gate is open); setupCompositeCanvas is left to its timer
StartAR(throwAt) ==
    /\ ~started
    /\ started' = TRUE
    /\ RenderBody(0, FrameTicks + 1, CanvasTicks + 1, FALSE, throwAt,
                  FALSE, FALSE)
    /\ UNCHANGED <<isAppActive, resumeTimer>>
    /\ UNCHANGED <<compositeCanvas, canvasWidth, canvasHeight, videoWidth,
                   videoHeight>>
    /\ UNCHANGED <<rendererVars, extraVars, layoutVars, recVars, startVars, healthVars>>

\* a display tick runs one pending render callback
RenderCallback(early, throwAt, found, drawThrows) ==
    /\ started
    /\ pendingRender > 0
    /\ LET t == Min(ticksSinceFrame + 1, FrameTicks + 1)
           c == Min(ticksSinceCanvas + 1, CanvasTicks + 1)
       IN  /\ t < FrameTicks => early
           /\ t > FrameTicks => ~early
           /\ RenderBody(pendingRender - 1, t, c, early, throwAt, found,
                         drawThrows)
    /\ UNCHANGED <<started, isAppActive, resumeTimer>>
    /\ UNCHANGED <<compositeCanvas, canvasWidth, canvasHeight, videoWidth,
                   videoHeight>>
    /\ UNCHANGED <<rendererVars, extraVars, layoutVars, recVars, startVars, healthVars>>

OnAppPause ==
    /\ isAppActive
    /\ isAppActive' = FALSE
    /\ UNCHANGED <<started, pendingRender, ticksSinceFrame, ticksSinceCanvas,
                   lastFrame, resumeTimer>>
    /\ UNCHANGED <<surfVars, videoVars, rendererVars, extraVars, layoutVars, recVars,
                   startVars, healthVars>>

OnAppResume ==
    /\ isAppActive' = TRUE
    /\ resumeTimer' = TRUE
    /\ UNCHANGED <<started, pendingRender, ticksSinceFrame, ticksSinceCanvas,
                   lastFrame>>
    /\ UNCHANGED <<surfVars, videoVars, rendererVars, extraVars, layoutVars, recVars,
                   startVars, healthVars>>

\* reinitializeVideoAndCanvas: setupCompositeCanvas removes the canvas and
\* arms the timer that creates it again; updateCanvasSize then finds none
ReinitializeVideoAndCanvas ==
    /\ resumeTimer
    /\ resumeTimer' = FALSE
    /\ compositeCanvas' = FALSE
    /\ canvasWidth' = 0 /\ canvasHeight' = 0
    /\ surface' = [ClearedSurface EXCEPT !.size = <<0, 0>>]
    /\ UNCHANGED <<started, pendingRender, isAppActive, ticksSinceFrame,
                   ticksSinceCanvas, lastFrame>>
    /\ UNCHANGED <<videoVars, rendererVars, extraVars, layoutVars, recVars, startVars,
                   healthVars>>

RenderInit ==
    /\ compositeCanvas = FALSE
    /\ canvasWidth = 0 /\ canvasHeight = 0
    /\ surface = ClearedSurface
    /\ videoElement = FALSE
    /\ \E s \in {<<0, 0>>, <<MaxDim, 1>>} :
          videoWidth = s[1] /\ videoHeight = s[2]
    /\ rendererWidth = 2 /\ rendererHeight = 1
    /\ isMobile \in BOOLEAN
    /\ innerWidth = 390 /\ innerHeight = 844
    /\ devicePixelRatio = <<3, 1>>
    /\ resizeTimeout = FALSE
    /\ RenderIdle /\ StartIdle /\ HealthIdle /\ ExtraIdle
    /\ mediaRecorder = 0 /\ recordedChunks = <<>>
    /\ isRecording \in BOOLEAN
    /\ rec = <<>> /\ status = NoStatus /\ downloads = 0
    /\ recordBtnHidden = isRecording

RenderNext ==
    \/ \E throwAt \in ThrowStages \cup {"none"} : StartAR(throwAt)
    \/ \E early \in BOOLEAN, throwAt \in ThrowStages \cup {"none"},
          found \in BOOLEAN, drawThrows \in BOOLEAN :
           RenderCallback(early, throwAt, found, drawThrows)
    \/ OnAppPause
    \/ OnAppResume
    \/ ReinitializeVideoAndCanvas
    \/ SetupCompositeCanvas

SpecRender == RenderInit /\ [][RenderNext]_vars

\* C6: once the loop is started exactly one render callback is pending
\* after every invocation of render, whether the frame was skipped, paused,
\* completed or left by an exception: the loop never stops and never forks.
C6_LoopRescheduled == started => pendingRender = 1

\* a frame whose 3D rendering threw has run and the next frame is scheduled
C6_Witness == started /\ lastFrame = "render" /\ pendingRender = 1

(***************************************************************************)
(* Recording session of main.js: startRecording, optimizeCanvasFor-        *)
(* Recording, stopRecording, restoreCanvasSize, resetRecordingUI,          *)
(* saveRecording and the MediaRecorder callbacks.                          *)
(*                                                                         *)
(* A session is one invocation of startRecording together with the         *)
(* MediaRecorder it creates; rec[i] is the recorder of session i.  The     *)
(* browser side follows the MediaStream Recording specification: stop()    *)
(* and an encoder error both make the recorder inactive and queue one task *)
(* that fires a last dataavailable event and then the stop event.          *)
(***************************************************************************)
maxRecordingWidth == 720
maxRecordingHeight == 480

Sessions == 1..(nextSession - 1)
NoRecorder ==
    [state |-> "none", stopPending |-> FALSE, pendingData |-> 0,
     mimeType |-> "none", trackLive |-> FALSE]

\* the preference list of startRecording for the device class
MimeTypes(mobile) ==
    IF mobile
    THEN <<"video/mp4;codecs=h264", "video/mp4;codecs=avc1", "video/mp4",
           "video/webm;codecs=vp9", "video/webm;codecs=vp8", "video/webm">>
    ELSE <<"video/mp4;codecs=h264", "video/mp4",
           "video/webm;codecs=vp9", "video/webm;codecs=vp8", "video/webm">>

\* a selection loop that lets a later supported type replace an earlier one
SelectLastSupported(supported, mobile) ==
    LET list == MimeTypes(mobile)
        hits == {k \in 1..Len(list) : list[k] \in supported}
    IN  IF hits = {}
        THEN "video/webm"
        ELSE list[CHOOSE k \in hits : \A j \in hits : j <= k]

\* the first type of the list that MediaRecorder.isTypeSupported accepts,
\* 'video/webm' when it accepts none
SelectMimeType(supported, mobile) ==
    LET list == MimeTypes(mobile)
        hits == {k \in 1..Len(list) : list[k] \in supported}
    IN  IF hits = {}
        THEN "video/webm"
        ELSE list[CHOOSE k \in hits : \A j \in hits : k <= j]

\* String.includes on the MIME types of the model
IsWebm(type) == type \in {"video/webm;codecs=vp9", "video/webm;codecs=vp8",
                          "video/webm"}

\* targetWidth and targetHeight of optimizeCanvasForRecording with their
\* inexactness flags
RecordingSize(vw, vh, pr) ==
    LET tw0 == FMin(FMul(FInt(vw), pr), FMul(FInt(maxRecordingWidth), pr))
        th0 == FMin(FMul(FInt(vh), pr), FMul(FInt(maxRecordingHeight), pr))
        aspectRatio == Frac(vw, vh)
        frac == pr[2] # 1
    IN  IF FLt(aspectRatio, FDiv(tw0, th0))
        THEN <<FMul(th0, aspectRatio), th0, TRUE, frac>>
        ELSE <<tw0, FDiv(tw0, aspectRatio), frac, TRUE>>

RECURSIVE TotalSize(_)
TotalSize(chunks) ==
    IF chunks = <<>> THEN 0 ELSE Head(chunks).size + TotalSize(Tail(chunks))

\* a saveRecording that saves whatever list it is given
SaveOutcomeUnchecked(chunks) == "saved"

\* the outcome of saveRecording for a chunk list: it throws on an empty list
\* and on a total size of 0
SaveOutcome(chunks) ==
    IF Len(chunks) = 0 THEN "failed"
    ELSE IF TotalSize(chunks) = 0 THEN "failed"
    ELSE "saved"

\* file extension chosen by saveRecording of main.js
FileExtension(recorderMimeType, mobile) ==
    IF recorderMimeType # "none"
    THEN IF IsWebm(recorderMimeType)
         THEN IF mobile THEN "mp4" ELSE "webm"
         ELSE "mp4"
    ELSE "mp4"

\* blob type chosen by saveRecording of main.js
BlobType(recorderMimeType, mobile) ==
    IF FileExtension(recorderMimeType, mobile) = "webm"
    THEN "video/webm" ELSE "video/mp4"

\* the container of the bytes an encoder of the given type delivers
Container(type) == IF IsWebm(type) THEN "webm" ELSE "mp4"

\* the file saveRecording writes for the chunk list chunks while
\* this.mediaRecorder is recorder m (0: none)
FileOf(chunks, m) ==
    LET recorderMimeType == IF m = 0 THEN "none" ELSE rec[m].mimeType
    IN  [extension |-> FileExtension(recorderMimeType, isMobile),
         mimeType |-> BlobType(recorderMimeType, isMobile),
         container |-> IF chunks = <<>> THEN "none"
                       ELSE Container(chunks[1].type)]

\* the assignments of saveRecording to status, downloads and recordedChunks
\* when it is called with the chunk list chunks
DoSaveRecording(chunks) ==
    IF SaveOutcome(chunks) = "saved"
    THEN /\ downloads' = downloads + 1
         /\ recordedChunks' = <<>>
         /\ status' = [msg |-> "Recording saved!", isError |-> FALSE]
    ELSE /\ downloads' = downloads
         /\ recordedChunks' = <<>>
         /\ status' = [msg |-> "Save failed", isError |-> TRUE]

\* the canvas sizes optimizeCanvasForRecording can leave
OptimizedCanvasSizes ==
    LET t == RecordingSize(innerWidth, innerHeight, devicePixelRatio)
    IN  {<<w, h>> : w \in CanvasDimension(t[1], t[3]),
                    h \in CanvasDimension(t[2], t[4])}

\* resetRecordingUI
ResetRecordingUI ==
    /\ recordBtnHidden' = FALSE
    /\ isRecording' = FALSE

\* the part of startRecording between the wait for the canvas and its next
\* await; pcs holds the positions of the invocations, i is this one
ContinueAfterSetup(i, pcs, found, drawThrows) ==
    LET optimize == isMobile /\ compositeCanvas
    IN  /\ \E sz \in (IF optimize THEN OptimizedCanvasSizes
                                  ELSE {<<canvasWidth, canvasHeight>>}) :
              /\ canvasWidth' = sz[1]
              /\ canvasHeight' = sz[2]
              /\ IF videoElement
                 THEN /\ startPc' = [pcs EXCEPT ![i] = "awaitVideo"]
                      /\ surface' = IF optimize
                                    THEN ClearedSurfaceOf(sz[1], sz[2])
                                    ELSE surface
                      /\ UNCHANGED videoElement
                 ELSE /\ startPc' = [pcs EXCEPT ![i] = "awaitFrame"]
                      /\ IF compositeCanvas
                         THEN /\ videoElement' = found
                              /\ surface' = CompositeSurface(
                                                IF optimize
                                                THEN ClearedSurfaceOf(sz[1],
                                                                      sz[2])
                                                ELSE surface,
                                                sz[1], sz[2], found,
                                                drawThrows)
                         ELSE UNCHANGED <<videoElement, surface>>
        /\ originalCanvasSize' =
              IF optimize /\ originalCanvasSize = NullSize
              THEN <<canvasWidth, canvasHeight>>
              ELSE originalCanvasSize
        /\ UNCHANGED <<compositeCanvas, videoWidth, videoHeight>>

\* a click on the record button: startRecording up to its first await
StartRecording(found, drawThrows) ==
    /\ ~recordBtnHidden
    /\ nextSession <= MaxSessions
    /\ nextSession' = nextSession + 1
    /\ rec' = Append(rec, NoRecorder)
    /\ outcome' = Append(outcome, "none")
    /\ IF ~compositeCanvas
       THEN /\ startPc' = Append(startPc, "awaitSetup")
            /\ UNCHANGED <<originalCanvasSize, surfVars, videoVars>>
       ELSE ContinueAfterSetup(nextSession, Append(startPc, "awaitSetup"),
                               found, drawThrows)
    /\ UNCHANGED <<mediaRecorder, recordedChunks, isRecording, status,
                   downloads, recordBtnHidden>>
    /\ UNCHANGED <<rendererVars, extraVars, layoutVars, renderVars, healthVars>>

\* startRecording resumes after the one-second wait for the canvas
StartRecordingAfterSetup(i, found, drawThrows) ==
    /\ i \in Sessions
    /\ startPc[i] = "awaitSetup"
    /\ ContinueAfterSetup(i, startPc, found, drawThrows)
    /\ UNCHANGED <<outcome, nextSession>>
    /\ UNCHANGED <<rendererVars, extraVars, layoutVars, renderVars, recVars, healthVars>>

\* startRecording resumes after waitForVideoReady, which resolves when the
\* video is ready and at the latest after its attempts are used up
StartRecordingAfterVideo(i, found, drawThrows) ==
    /\ i \in Sessions
    /\ startPc[i] = "awaitVideo"
    /\ startPc' = [startPc EXCEPT ![i] = "awaitFrame"]
    /\ DoUpdateCompositeCanvas(found, drawThrows)
    /\ UNCHANGED <<compositeCanvas, canvasWidth, canvasHeight, videoWidth,
                   videoHeight>>
    /\ UNCHANGED <<originalCanvasSize, outcome, nextSession>>
    /\ UNCHANGED <<rendererVars, extraVars, layoutVars, renderVars, recVars, healthVars>>

\* startRecording resumes after the animation frame and runs to its end.
\* supported: the types MediaRecorder.isTypeSupported accepts, tracksOk: the
\* captured stream has a video track
StartRecordingAfterFrame(i, supported, tracksOk, found, drawThrows) ==
    /\ i \in Sessions
    /\ startPc[i] = "awaitFrame"
    /\ startPc' = [startPc EXCEPT ![i] = "done"]
    /\ LET selectedMimeType == SelectMimeType(supported, isMobile)
           throwsEarly == ~compositeCanvas \/ canvasWidth = 0 \/ ~tracksOk
           constructorThrows == selectedMimeType \notin supported
       IN  IF throwsEarly \/ constructorThrows
           THEN /\ recordedChunks' = IF throwsEarly THEN recordedChunks
                                                    ELSE <<>>
                /\ status' = [msg |-> "Recording failed", isError |-> TRUE]
                /\ ResetRecordingUI
                /\ outcome' = [outcome EXCEPT ![i] = "failed"]
                /\ UNCHANGED <<mediaRecorder, rec, videoElement, surface>>
           ELSE /\ recordedChunks' = <<>>
                /\ mediaRecorder' = i
                /\ rec' = [rec EXCEPT ![i] =
                              [state |-> "recording", stopPending |-> FALSE,
                               pendingData |-> 0,
                               mimeType |-> selectedMimeType,
                               trackLive |-> TRUE]]
                /\ isRecording' = TRUE
                /\ DoUpdateCompositeCanvas(found, drawThrows)
                /\ recordBtnHidden' = TRUE
                /\ status' = [msg |-> "Recording started", isError |-> FALSE]
                /\ UNCHANGED outcome
    /\ UNCHANGED <<downloads, compositeCanvas, canvasWidth, canvasHeight,
                   videoWidth, videoHeight, originalCanvasSize, nextSession>>
    /\ UNCHANGED <<rendererVars, extraVars, layoutVars, renderVars, healthVars>>

\* the blob of the given size that recorder i hands to ondataavailable
Chunk(i, size) == [size |-> size, type |-> rec[i].mimeType, session |-> i]

\* a handler that stores every blob it is given
OnDataAvailableStoringAll(chunks, data) == Append(chunks, data)

\* the chunk list after the ondataavailable handler has run on it
OnDataAvailable(chunks, data) ==
    IF data.size > 0 THEN Append(chunks, data) ELSE chunks

\* a chunk of the given size arrives from recorder i (ondataavailable)
DataAvailable(i, size) ==
    /\ i \in Sessions
    /\ rec[i].state = "recording"
    /\ size > 0 => Len(recordedChunks) < MaxChunks
    /\ recordedChunks' = OnDataAvailable(recordedChunks, Chunk(i, size))
    /\ UNCHANGED <<mediaRecorder, isRecording, rec, status, downloads,
                   recordBtnHidden>>
    /\ UNCHANGED <<surfVars, videoVars, rendererVars, extraVars, layoutVars, renderVars,
                   startVars, healthVars>>

\* restoreCanvasSize
RestoreCanvasSize ==
    IF ~compositeCanvas \/ originalCanvasSize = NullSize
    THEN UNCHANGED <<canvasWidth, canvasHeight, surface, originalCanvasSize>>
    ELSE /\ canvasWidth' = originalCanvasSize[1]
         /\ canvasHeight' = originalCanvasSize[2]
         /\ surface' = ClearedSurfaceOf(originalCanvasSize[1],
                                        originalCanvasSize[2])
         /\ originalCanvasSize' = NullSize

\* stopRecording; pending: the size of the data the encoder still holds,
\* delivered by the last dataavailable event
StopRecording(pending) ==
    /\ mediaRecorder # 0 /\ isRecording
    /\ IF rec[mediaRecorder].state = "recording"
       THEN /\ rec' = [rec EXCEPT ![mediaRecorder] =
                          [@ EXCEPT !.state = "inactive",
                                    !.stopPending = TRUE,
                                    !.pendingData = pending]]
            /\ IF isMobile /\ originalCanvasSize # NullSize
               THEN RestoreCanvasSize
               ELSE UNCHANGED <<canvasWidth, canvasHeight, surface,
                                originalCanvasSize>>
            /\ ResetRecordingUI
            /\ status' = [msg |-> "Recording stopped", isError |-> FALSE]
       ELSE \* stop() throws on an inactive recorder
            /\ pending = 0
            /\ status' = [msg |-> "Error stopping recording",
                          isError |-> TRUE]
            /\ ResetRecordingUI
            /\ UNCHANGED <<rec, canvasWidth, canvasHeight, surface,
                           originalCanvasSize>>
    /\ UNCHANGED <<mediaRecorder, recordedChunks, downloads, compositeCanvas,
                   startPc, outcome, nextSession>>
    /\ UNCHANGED <<videoVars, rendererVars, extraVars, layoutVars, renderVars, healthVars>>

\* an error handler that drops what has been recorded
EncoderErrorDiscarding(i, pending) ==
    /\ i \in Sessions
    /\ rec[i].state = "recording"
    /\ rec' = [rec EXCEPT ![i] = [@ EXCEPT !.state = "inactive"]]
    /\ recordedChunks' = <<>>
    /\ status' = [msg |-> "Recording error occurred", isError |-> TRUE]
    /\ ResetRecordingUI
    /\ UNCHANGED <<mediaRecorder, downloads>>
    /\ UNCHANGED <<surfVars, videoVars, rendererVars, extraVars, layoutVars,
                   renderVars, startVars, healthVars>>

\* the encoder of recorder i fails (onerror); pending: the size of the data
\* the encoder still holds
EncoderError(i, pending) ==
    /\ i \in Sessions
    /\ rec[i].state = "recording"
    /\ rec' = [rec EXCEPT ![i] = [@ EXCEPT !.state = "inactive",
                                           !.stopPending = TRUE,
                                           !.pendingData = pending]]
    /\ status' = [msg |-> "Recording error occurred", isError |-> TRUE]
    /\ ResetRecordingUI
    /\ UNCHANGED <<mediaRecorder, recordedChunks, downloads>>
    /\ UNCHANGED <<surfVars, videoVars, rendererVars, extraVars, layoutVars, renderVars,
                   startVars, healthVars>>

\* the chunk list saveRecording finds when recorder i has stopped: the last
\* dataavailable event is handled just before the stop event
SaveInput(i) ==
    OnDataAvailable(recordedChunks, Chunk(i, rec[i].pendingData))

\* an onstop handler that starts its recorder again
RecorderRestarted(r) ==
    [r EXCEPT !.state = "recording", !.stopPending = FALSE, !.pendingData = 0]

\* recorder r once its stop event is handled: onstop only saves, the
\* recorder stays inactive
RecorderStopped(r) ==
    [r EXCEPT !.stopPending = FALSE, !.pendingData = 0]

\* recorder i has stopped: its last ondataavailable and its onstop, which
\* calls saveRecording
OnStop(i) ==
    /\ i \in Sessions
    /\ rec[i].stopPending
    /\ rec' = [rec EXCEPT ![i] = RecorderStopped(@)]
    /\ DoSaveRecording(SaveInput(i))
    /\ savedFile' = IF SaveOutcome(SaveInput(i)) = "saved"
                    THEN FileOf(SaveInput(i), mediaRecorder)
                    ELSE savedFile
    /\ outcome' = [outcome EXCEPT ![i] = SaveOutcome(SaveInput(i))]
    /\ UNCHANGED <<mediaRecorder, isRecording, recordBtnHidden>>
    /\ UNCHANGED <<startPc, originalCanvasSize, nextSession>>
    /\ UNCHANGED <<surfVars, videoVars, rendererVars, trackVars, shotVars,
                   lifeVars, setupVars,
                   reencoder, layoutVars, renderVars, healthVars>>

\* the sets MediaRecorder.isTypeSupported can accept
SupportedSets ==
    {{}, {"video/webm"},
     {"video/mp4;codecs=avc1", "video/mp4", "video/webm"}}

RecInit ==
    /\ compositeCanvas = FALSE
    /\ canvasWidth = 0 /\ canvasHeight = 0
    /\ surface = ClearedSurface
    /\ videoElement = FALSE
    /\ videoWidth = MaxDim /\ videoHeight = 1
    /\ rendererWidth = 2 /\ rendererHeight = 1
    /\ isMobile \in BOOLEAN
    /\ innerWidth = 390 /\ innerHeight = 844
    /\ devicePixelRatio = <<3, 1>>
    /\ resizeTimeout = FALSE
    /\ RenderIdle /\ RecIdle /\ StartIdle /\ HealthIdle /\ ExtraIdle

RecNext ==
    \/ SetupCompositeCanvas
    \/ \E found \in BOOLEAN, drawThrows \in BOOLEAN :
          StartRecording(found, drawThrows)
    \/ \E i \in Sessions, found \in BOOLEAN, drawThrows \in BOOLEAN :
          StartRecordingAfterSetup(i, found, drawThrows)
    \/ \E i \in Sessions, found \in BOOLEAN, drawThrows \in BOOLEAN :
          StartRecordingAfterVideo(i, found, drawThrows)
    \/ \E i \in Sessions, supported \in SupportedSets, tracksOk \in BOOLEAN,
          found \in BOOLEAN, drawThrows \in BOOLEAN :
          StartRecordingAfterFrame(i, supported, tracksOk, found, drawThrows)
    \/ \E i \in Sessions, size \in 0..MaxChunkSize : DataAvailable(i, size)
    \/ \E pending \in 0..MaxChunkSize : StopRecording(pending)
    \/ \E i \in Sessions, pending \in 0..MaxChunkSize : EncoderError(i, pending)
    \/ \E i \in Sessions : OnStop(i)

SpecRec == RecInit /\ [][RecNext]_vars

\* the state of session i
Phase(i) ==
    IF startPc[i] # "done" THEN "starting"
    ELSE IF rec[i].state = "recording" THEN "active"
    ELSE IF rec[i].stopPending THEN "stopping"
    ELSE outcome[i]

\* the transitions of a session along
\* idle -> starting -> active -> stopping -> {saved | failed}
ForwardSteps ==
    {<<"starting", "active">>, <<"starting", "failed">>,
     <<"active", "stopping">>, <<"stopping", "saved">>,
     <<"stopping", "failed">>}

\* C2: a session only moves forward: every step leaves the state of every
\* session as it is or takes one of the forward transitions, so a session
\* that is saved or failed stays so, and a recorder is only ever created by
\* the startRecording invocation of a new session.
C2_ForwardOnly ==
    [][\A i \in Sessions :
          \/ Phase(i)' = Phase(i)
          \/ <<Phase(i), Phase(i)'>> \in ForwardSteps]_vars

C2_Witness ==
    \E i \in Sessions, j \in Sessions :
        /\ i < j
        /\ Phase(i) = "saved"
        /\ Phase(j) = "failed" /\ rec[j].state = "inactive"

\* C3: a stop request is accepted whenever a session is in flight: while a
\* session is starting or active, stopRecording is open and its stop() call
\* reaches the recorder of that session.
C3_StopAccepted ==
    \A i \in Sessions :
        Phase(i) \in {"starting", "active"} =>
            /\ isRecording
            /\ mediaRecorder = i

\* C4: saveRecording called with a chunk list that is empty or has a total
\* size of 0 ends in failure: the error status is shown, nothing is
\* downloaded and the chunk list is empty afterwards.
C4_EmptySaveFails ==
    [][\A i \in Sessions :
          (rec[i].stopPending /\ ~rec'[i].stopPending
              /\ TotalSize(SaveInput(i)) = 0)
          => /\ outcome'[i] = "failed"
             /\ status' = [msg |-> "Save failed", isError |-> TRUE]
             /\ downloads' = downloads
             /\ recordedChunks' = <<>>]_vars

C4_Witness ==
    /\ \E i \in Sessions :
          /\ rec[i].state = "inactive" /\ ~rec[i].stopPending
          /\ outcome[i] = "failed"
    /\ status = [msg |-> "Save failed", isError |-> TRUE]
    /\ downloads = 0
    /\ recordedChunks = <<>>

\* the sizes updateCanvasSize gives the canvas for the viewport
NormalCanvasSizes ==
    LET t == TargetSize(innerWidth, innerHeight, devicePixelRatio, isMobile)
    IN  {<<w, h>> : w \in CanvasDimension(t[1], t[3]),
                    h \in CanvasDimension(t[2], t[4])}

\* C15: when startRecording reaches the creation of the encoder with a
\* canvas to record, a video track and at least one supported type, the
\* encoder is created with the first type of the preference list of the
\* device class that isTypeSupported accepts and no error is shown; when
\* 'video/webm', the last of the list, is the only supported type, the
\* encoder is created with 'video/webm' and the attempt does not fail.
C15_FirstSupportedType ==
    [][\A i \in Sessions, supported \in SupportedSets,
          found \in BOOLEAN, drawThrows \in BOOLEAN :
          /\ StartRecordingAfterFrame(i, supported, TRUE, found, drawThrows)
          /\ compositeCanvas /\ canvasWidth # 0
          /\ supported # {}
          => LET list == MimeTypes(isMobile)
                 type == rec'[i].mimeType
             IN  /\ rec'[i].state = "recording"
                 /\ ~status'.isError
                 /\ outcome'[i] # "failed"
                 /\ \E k \in 1..Len(list) :
                       /\ list[k] = type
                       /\ type \in supported
                       /\ \A j \in 1..(k - 1) : list[j] \notin supported
                 /\ list[Len(list)] = "video/webm"
                 /\ supported = {"video/webm"} => type = "video/webm"
      ]_vars

\* an encoder records with 'video/webm', which only the host that supports
\* nothing else of the list selects
C15_Witness ==
    \E i \in Sessions :
        /\ rec[i].state = "recording"
        /\ rec[i].mimeType = "video/webm"
        /\ status = [msg |-> "Recording started", isError |-> FALSE]

C21_ExtensionMatchesBytes ==
    savedFile # NoFile =>
        /\ savedFile.extension = savedFile.container
        /\ savedFile.mimeType = "video/" \o savedFile.container

\* C30: the video track of the stream captured for a session is stopped
\* once the session is stopping, saved or failed.
C30_TracksStopped ==
    \A i \in Sessions :
        Phase(i) \in {"stopping", "saved", "failed"} => ~rec[i].trackLive

\* C31: at most one encoder records at any time, and the encoder that
\* records is the one this.mediaRecorder refers to, so that stopRecording
\* can reach it.
C31_OneEncoder ==
    \A i \in Sessions :
        rec[i].state = "recording" =>
            /\ mediaRecorder = i
            /\ \A j \in Sessions : rec[j].state = "recording" => j = i

\* the chunks of the list that recorder i delivered
ChunksOf(i, chunks) == SelectSeq(chunks, LAMBDA c : c.session = i)

\* C32: recording sessions are isolated from each other.  While the stop
\* event of a stopped recorder is pending, no step takes the chunks that
\* recorder delivered out of the chunk list; when the stop event is handled,
\* the list that is saved holds chunks of that recorder only, and the list
\* of another recorder that records is left as it is.
C32_SessionsIsolated ==
    [][\A i \in Sessions :
          /\ (rec[i].stopPending /\ rec'[i].stopPending)
             => ChunksOf(i, recordedChunks') = ChunksOf(i, recordedChunks)
          /\ (rec[i].stopPending /\ ~rec'[i].stopPending)
             => /\ ChunksOf(i, SaveInput(i)) = SaveInput(i)
                /\ \A j \in Sessions \ {i} :
                      rec[j].state = "recording"
                          => recordedChunks' = recordedChunks
      ]_vars

\* session i is active before and after the step
StaysActive(i) ==
    rec[i].state = "recording" /\ rec'[i].state = "recording"

\* the step leaves the chunk list or appends one chunk of recorder i
AppendsOnly(i) ==
    \/ recordedChunks' = recordedChunks
    \/ \E size \in 1..MaxChunkSize :
          recordedChunks' = Append(recordedChunks, Chunk(i, size))

\* no session other than i is starting, active or waiting for its stop
\* event
OnlySession(i) ==
    \A j \in Sessions \ {i} :
        startPc[j] = "done" /\ rec[j].state # "recording"
            /\ ~rec[j].stopPending

C5_CanvasRestored ==
    (/\ isMobile
     /\ compositeCanvas
     /\ Sessions # {}
     /\ \A i \in Sessions : Phase(i) \in {"stopping", "saved", "failed"})
    => /\ originalCanvasSize = NullSize
       /\ <<canvasWidth, canvasHeight>> \in NormalCanvasSizes

\* C22: on a mobile device, while the size applied by
\* optimizeCanvasForRecording is in force, the composite canvas is at most
\* 720 x 480 and in neither dimension larger than a size updateCanvasSize
\* gives for the same viewport and pixel ratio.
C22_RecordingCeiling ==
    isMobile /\ compositeCanvas /\ originalCanvasSize # NullSize =>
        /\ canvasWidth <= maxRecordingWidth
        /\ canvasHeight <= maxRecordingHeight
        /\ \E n \in NormalCanvasSizes :
               canvasWidth <= n[1] /\ canvasHeight <= n[2]

(***************************************************************************)
(* Recording session of part_000: a synchronous startRecording, the health *)
(* check checkRecordingHealth with its automatic restart, and the          *)
(* frame-polling fallback.  The handlers call one another, so each is      *)
(* written as a function from the recording state to the recording state   *)
(* and an action applies the result of the handler it runs.                *)
(***************************************************************************)
HealthCheckDelay == 2000
NoDataLimit == 3000
RestartDelay == 500
StaleDataLimit == 5000

\* the recording state of the application as one record
HState ==
    [mediaRecorder |-> mediaRecorder, recordedChunks |-> recordedChunks,
     isRecording |-> isRecording, rec |-> rec, status |-> status,
     downloads |-> downloads, recordBtnHidden |-> recordBtnHidden,
     outcome |-> outcome, nextSession |-> nextSession,
     recordingStartTime |-> recordingStartTime,
     lastDataTime |-> lastDataTime, dataReceived |-> dataReceived,
     recordingAttempts |-> recordingAttempts,
     recordingTimeout |-> recordingTimeout, timers |-> timers,
     fallbackRecording |-> fallbackRecording,
     fallbackFrames |-> fallbackFrames,
     fallbackInterval |-> fallbackInterval, fallbackSave |-> fallbackSave]

\* the variables take the values of the record s
Apply(s) ==
    /\ mediaRecorder' = s.mediaRecorder
    /\ recordedChunks' = s.recordedChunks
    /\ isRecording' = s.isRecording
    /\ rec' = s.rec
    /\ status' = s.status
    /\ downloads' = s.downloads
    /\ recordBtnHidden' = s.recordBtnHidden
    /\ outcome' = s.outcome
    /\ nextSession' = s.nextSession
    /\ recordingStartTime' = s.recordingStartTime
    /\ lastDataTime' = s.lastDataTime
    /\ dataReceived' = s.dataReceived
    /\ recordingAttempts' = s.recordingAttempts
    /\ recordingTimeout' = s.recordingTimeout
    /\ timers' = s.timers
    /\ fallbackRecording' = s.fallbackRecording
    /\ fallbackFrames' = s.fallbackFrames
    /\ fallbackInterval' = s.fallbackInterval
    /\ fallbackSave' = s.fallbackSave

\* setTimeout and clearTimeout; timers is the set of the pending timers,
\* [id, kind, at].  The id of a timer that is gone is given out again, but
\* never while this.recordingTimeout (held) still names it.
TimerIds == 1..(MaxRecorders + 2)
FreeId(ts, held) ==
    CHOOSE id \in TimerIds :
        /\ id # held /\ \A x \in ts : x.id # id
        /\ \A j \in TimerIds :
              (j # held /\ \A x \in ts : x.id # j) => id <= j
WithTimer(ts, held, kind, at) ==
    ts \cup {[id |-> FreeId(ts, held), kind |-> kind, at |-> at]}
Cancelled(ts, id) == {x \in ts : x.id # id}

\* showStatus
ShowStatus(s, msg, isError) ==
    [s EXCEPT !.status = [msg |-> msg, isError |-> isError]]

\* resetRecordingUI of part_000
ResetRecordingUIHealth(s) ==
    [s EXCEPT !.recordBtnHidden = FALSE,
              !.isRecording = FALSE,
              !.fallbackRecording = FALSE,
              !.timers = Cancelled(@, s.recordingTimeout),
              !.recordingTimeout = NoTimer,
              !.fallbackInterval = FALSE,
              !.fallbackFrames = 0]

\* the outcome of saveRecording of part_000 for a chunk list
SaveOutcomeHealth(chunks) ==
    IF Len(chunks) = 0 THEN "failed"
    ELSE IF TotalSize(chunks) = 0 THEN "failed"
    ELSE "saved"

\* saveRecording of part_000
SaveRecordingHealth(s) ==
    IF SaveOutcomeHealth(s.recordedChunks) = "saved"
    THEN ShowStatus([s EXCEPT !.downloads = @ + 1, !.recordedChunks = <<>>],
                    "Recording saved!", FALSE)
    ELSE ShowStatus([s EXCEPT !.recordedChunks = <<>>], "Save failed", TRUE)

\* saveFallbackRecording up to its return: the first frame starts to load,
\* and the finally block empties the frame list
SaveFallbackRecording(s) ==
    [s EXCEPT !.fallbackSave = "loading", !.fallbackFrames = 0]

\* stopFallbackRecording
StopFallbackRecording(s) ==
    IF s.fallbackRecording
    THEN LET s1 == [s EXCEPT !.fallbackRecording = FALSE,
                             !.fallbackInterval = FALSE]
         IN  IF s1.fallbackFrames > 0
             THEN SaveFallbackRecording(s1)
             ELSE ShowStatus(s1, "No frames captured in fallback recording",
                             TRUE)
    ELSE s

\* forceStopRecording: the handlers are taken off the recorder
ForceStopRecording(s) ==
    LET m == s.mediaRecorder
        s1 == IF m # 0
              THEN [s EXCEPT !.rec[m].handlers = FALSE, !.mediaRecorder = 0]
              ELSE s
    IN  IF Len(s1.recordedChunks) > 0
        THEN SaveRecordingHealth(s1)
        ELSE ShowStatus(s1, "Recording failed - no data captured", TRUE)

\* stopRecording of part_000; pending: the size of the data the encoder
\* still holds
StopRecordingHealth(s, pending) ==
    IF s.fallbackRecording
    THEN ShowStatus(ResetRecordingUIHealth(StopFallbackRecording(s)),
                    "Recording stopped", FALSE)
    ELSE IF s.mediaRecorder # 0 /\ s.isRecording
    THEN LET m == s.mediaRecorder
             s1 == [s EXCEPT !.timers = Cancelled(@, s.recordingTimeout),
                             !.recordingTimeout = NoTimer]
             s2 == IF s1.rec[m].state = "recording"
                   THEN [s1 EXCEPT !.rec[m].state = "inactive",
                                   !.rec[m].stopPending = TRUE,
                                   !.rec[m].pendingData = pending]
                   ELSE ForceStopRecording(s1)  \* stop() throws
         IN  ShowStatus(ResetRecordingUIHealth(
                            [s2 EXCEPT !.isRecording = FALSE]),
                        "Recording stopped", FALSE)
    ELSE s

\* the preference list of startRecording of part_000
HealthMimeTypes ==
    <<"video/webm;codecs=vp9", "video/webm;codecs=vp8", "video/webm",
      "video/mp4">>

\* startRecording of part_000 at time t; supported: the types
\* MediaRecorder.isTypeSupported accepts, tracksOk: the captured stream has
\* a video track
StartRecordingHealth(s, supported, tracksOk, t) ==
    LET i == s.nextSession
        hits == {k \in 1..Len(HealthMimeTypes) :
                    HealthMimeTypes[k] \in supported}
        s0 == [s EXCEPT !.nextSession = i + 1,
                        !.rec = Append(@, [state |-> "none",
                                           stopPending |-> FALSE,
                                           pendingData |-> 0,
                                           mimeType |-> "none",
                                           handlers |-> FALSE,
                                           received |-> FALSE]),
                        !.outcome = Append(@, "none")]
    IN  IF hits = {} \/ ~tracksOk
        THEN ResetRecordingUIHealth(
                 ShowStatus([s0 EXCEPT !.outcome[i] = "failed"],
                            "Recording failed", TRUE))
        ELSE LET selectedMimeType ==
                     HealthMimeTypes[CHOOSE k \in hits : \A j \in hits : k <= j]
             IN  ShowStatus(
                   [s0 EXCEPT
                      !.mediaRecorder = i,
                      !.rec[i] = [state |-> "recording",
                                  stopPending |-> FALSE, pendingData |-> 0,
                                  mimeType |-> selectedMimeType,
                                  handlers |-> TRUE, received |-> FALSE],
                      !.recordedChunks = <<>>,
                      !.recordingStartTime = t,
                      !.lastDataTime = t,
                      !.dataReceived = FALSE,
                      !.recordingAttempts = 0,
                      !.isRecording = TRUE,
                      !.timers = WithTimer(@, s0.recordingTimeout, "health",
                                           t + HealthCheckDelay),
                      !.recordingTimeout =
                          FreeId(s0.timers, s0.recordingTimeout),
                      !.recordBtnHidden = TRUE],
                   "Recording started", FALSE)

\* a health check that goes by the duration alone
NoDataTimeoutByDuration(s, t) ==
    s.isRecording /\ t - s.recordingStartTime > NoDataLimit

\* checkRecordingHealth finds that no data has arrived in time
NoDataTimeout(s, t) ==
    s.isRecording /\ ~s.dataReceived /\ t - s.recordingStartTime > NoDataLimit

\* checkRecordingHealth at time t
CheckRecordingHealthAt(s, t, pending) ==
    IF ~s.isRecording THEN s
    ELSE IF NoDataTimeout(s, t)
    THEN LET s1 == [s EXCEPT !.recordingAttempts = @ + 1]
             s2 == StopRecordingHealth(s1, pending)
         IN  [s2 EXCEPT !.timers =
                 WithTimer(@, s2.recordingTimeout,
                           IF s1.recordingAttempts >= 2 THEN "fallback"
                                                        ELSE "restart",
                           t + RestartDelay)]
    ELSE LET s1 == IF s.dataReceived /\ t - s.lastDataTime > StaleDataLimit
                   THEN ShowStatus(s, "Recording may be paused", FALSE)
                   ELSE s
         IN  IF s1.isRecording
             THEN [s1 EXCEPT !.timers = WithTimer(@, s1.recordingTimeout,
                                                  "health",
                                                  t + HealthCheckDelay),
                             !.recordingTimeout =
                                 FreeId(s1.timers, s1.recordingTimeout)]
             ELSE s1

\* startFallbackRecording
StartFallbackRecording(s) ==
    [ShowStatus(s, "Using fallback recording method", FALSE)
        EXCEPT !.fallbackFrames = 0,
               !.fallbackRecording = TRUE,
               !.fallbackInterval = TRUE,
               !.recordBtnHidden = TRUE]

HealthFrame ==
    UNCHANGED <<surfVars, videoVars, rendererVars, extraVars, layoutVars, renderVars,
                startPc, originalCanvasSize>>

Due(t) == t \in timers /\ t.at <= now
Fired(s, t) == [s EXCEPT !.timers = @ \ {t}]

\* a click on the record button
ClickRecord(supported, tracksOk) ==
    /\ ~recordBtnHidden
    /\ nextSession <= MaxRecorders
    /\ Apply(StartRecordingHealth(HState, supported, tracksOk, now))
    /\ noDataTimeouts' = 0
    /\ fallbackStarts' = 0
    /\ UNCHANGED now
    /\ HealthFrame

\* a click on the stop button
ClickStop(pending) ==
    /\ recordBtnHidden
    /\ Apply(StopRecordingHealth(HState, pending))
    /\ UNCHANGED <<now, noDataTimeouts, fallbackStarts>>
    /\ HealthFrame

\* the health-check timer t fires
CheckRecordingHealth(t, pending) ==
    /\ Due(t)
    /\ t.kind = "health"
    /\ Apply(CheckRecordingHealthAt(Fired(HState, t), now, pending))
    /\ noDataTimeouts' = IF NoDataTimeout(HState, now)
                         THEN noDataTimeouts + 1
                         ELSE noDataTimeouts
    /\ UNCHANGED <<now, fallbackStarts>>
    /\ HealthFrame

\* the timer t that checkRecordingHealth set after stopping the recorder
\* fires: the recording is started again, or the fallback is started
DelayedRestart(t, supported, tracksOk) ==
    /\ Due(t)
    /\ IF t.kind = "restart"
       THEN /\ nextSession <= MaxRecorders
            /\ Apply(StartRecordingHealth(
                         ShowStatus(Fired(HState, t),
                                    "Recording restarted due to no data",
                                    FALSE),
                         supported, tracksOk, now))
            /\ UNCHANGED fallbackStarts
       ELSE /\ t.kind = "fallback"
            /\ Apply(StartFallbackRecording(Fired(HState, t)))
            /\ fallbackStarts' = fallbackStarts + 1
    /\ UNCHANGED <<now, noDataTimeouts>>
    /\ HealthFrame

\* a chunk of the given size arrives from recorder i (ondataavailable)
DataAvailableHealth(i, size) ==
    /\ i \in Sessions
    /\ rec[i].state = "recording" /\ rec[i].handlers
    /\ size > 0 => Len(recordedChunks) < MaxChunks
    /\ lastDataTime' = now
    /\ IF size > 0
       THEN /\ recordedChunks' = Append(recordedChunks,
                                   [size |-> size, type |-> rec[i].mimeType,
                                    session |-> i])
            /\ dataReceived' = TRUE
            /\ noDataTimeouts' = 0
            /\ rec' = [rec EXCEPT ![i].received = TRUE]
       ELSE UNCHANGED <<recordedChunks, dataReceived, noDataTimeouts, rec>>
    /\ UNCHANGED <<mediaRecorder, isRecording, status, downloads,
                   recordBtnHidden, outcome, nextSession, now,
                   recordingStartTime, recordingAttempts, recordingTimeout,
                   timers, fallbackRecording, fallbackFrames,
                   fallbackInterval, fallbackSave, fallbackStarts>>
    /\ HealthFrame

\* the encoder of recorder i fails: onerror runs, the last dataavailable and
\* the stop event follow
EncoderErrorHealth(i, pending) ==
    /\ i \in Sessions
    /\ rec[i].state = "recording" /\ rec[i].handlers
    /\ Apply(ResetRecordingUIHealth(
                 ShowStatus([HState EXCEPT !.rec[i].state = "inactive",
                                           !.rec[i].stopPending = TRUE,
                                           !.rec[i].pendingData = pending],
                            "Recording error occurred", TRUE)))
    /\ UNCHANGED <<now, noDataTimeouts, fallbackStarts>>
    /\ HealthFrame

\* recorder i has stopped: its last ondataavailable and its onstop, which
\* calls saveRecording
OnStopHealth(i) ==
    /\ i \in Sessions
    /\ rec[i].stopPending
    /\ LET s0 == [HState EXCEPT !.rec[i].stopPending = FALSE,
                                !.rec[i].pendingData = 0]
           s1 == IF ~rec[i].handlers THEN s0
                 ELSE IF rec[i].pendingData > 0
                 THEN [s0 EXCEPT !.lastDataTime = now,
                                 !.dataReceived = TRUE,
                                 !.recordedChunks = SaveInput(i)]
                 ELSE [s0 EXCEPT !.lastDataTime = now]
       IN  /\ Apply(IF rec[i].handlers
                    THEN [SaveRecordingHealth(s1) EXCEPT !.outcome[i] =
                             SaveOutcomeHealth(s1.recordedChunks)]
                    ELSE s1)
           /\ noDataTimeouts' = IF rec[i].handlers /\ rec[i].pendingData > 0
                                THEN 0 ELSE noDataTimeouts
    /\ UNCHANGED <<now, fallbackStarts>>
    /\ HealthFrame

\* time passes until the next timer is due
Tick ==
    /\ timers # {}
    /\ \A t \in timers : ~Due(t)
    /\ \E t \in timers :
          /\ \A u \in timers : t.at <= u.at
          /\ t.at <= MaxTicks * RestartDelay
          /\ now' = t.at
    /\ UNCHANGED <<recVars, startVars, recordingStartTime, lastDataTime,
                   dataReceived, recordingAttempts, recordingTimeout, timers,
                   fallbackRecording, fallbackFrames, fallbackInterval,
                   fallbackSave, noDataTimeouts, fallbackStarts>>
    /\ UNCHANGED <<surfVars, videoVars, rendererVars, extraVars, layoutVars, renderVars>>

HealthInit ==
    /\ compositeCanvas = FALSE
    /\ canvasWidth = 0 /\ canvasHeight = 0
    /\ surface = ClearedSurface
    /\ videoElement = FALSE
    /\ videoWidth = 0 /\ videoHeight = 0
    /\ rendererWidth = 2 /\ rendererHeight = 1
    /\ isMobile = TRUE
    /\ innerWidth = 390 /\ innerHeight = 844
    /\ devicePixelRatio = <<3, 1>>
    /\ resizeTimeout = FALSE
    /\ RenderIdle /\ RecIdle /\ StartIdle /\ HealthIdle /\ ExtraIdle

HealthNext ==
    \/ \E supported \in {{}, {"video/webm"}}, tracksOk \in BOOLEAN :
          ClickRecord(supported, tracksOk)
    \/ \E pending \in 0..MaxChunkSize : ClickStop(pending)
    \/ \E t \in timers, pending \in 0..MaxChunkSize :
          CheckRecordingHealth(t, pending)
    \/ \E t \in timers, supported \in {{}, {"video/webm"}},
          tracksOk \in BOOLEAN : DelayedRestart(t, supported, tracksOk)
    \/ \E i \in Sessions, size \in 0..MaxChunkSize : DataAvailableHealth(i, size)
    \/ \E i \in Sessions, pending \in 0..MaxChunkSize :
          EncoderErrorHealth(i, pending)
    \/ \E i \in Sessions : OnStopHealth(i)
    \/ Tick

SpecHealth == HealthInit /\ [][HealthNext]_vars

\* a timer that will start the fallback is pending
FallbackPending ==
    \E t \in timers : t.kind = "fallback"

\* C1: a session whose encoder delivers no non-empty chunk reaches the
\* fallback exactly once: when the health check has found no data twice
\* since the record request, with no chunk in between, the fallback has been
\* started or is about to be, and it is never started a second time.
C1_FallbackOnce ==
    /\ fallbackStarts <= 1
    /\ noDataTimeouts >= 2 => (fallbackStarts = 1 \/ FallbackPending)

\* the recorder this.mediaRecorder names has delivered a non-empty chunk
HealthySession ==
    mediaRecorder # 0 /\ rec[mediaRecorder].received

\* C35: a run of checkRecordingHealth leaves a session that has received a
\* non-empty chunk as it is: no recorder changes, the recording goes on and
\* the only timer it sets is the next health check; when nothing is being
\* recorded it changes nothing at all.  A recorder that has delivered a
\* non-empty chunk leaves the recording state only in a step of
\* stopRecording called by the stop button or of its own onerror.
C35_HealthyUntouched ==
    [][/\ \A t \in timers, pending \in 0..MaxChunkSize :
             CheckRecordingHealth(t, pending) =>
                /\ HealthySession =>
                      /\ rec' = rec /\ mediaRecorder' = mediaRecorder
                      /\ isRecording' = isRecording
                      /\ recordedChunks' = recordedChunks
                      /\ recordingAttempts' = recordingAttempts
                      /\ ~fallbackRecording'
                      /\ \A x \in timers' \ timers : x.kind = "health"
                /\ ~isRecording =>
                      /\ timers' = timers \ {t}
                      /\ UNCHANGED <<recVars, outcome, nextSession,
                                     recordingStartTime, lastDataTime,
                                     dataReceived, recordingAttempts,
                                     recordingTimeout, fallbackRecording,
                                     fallbackFrames, fallbackInterval,
                                     fallbackSave>>
       /\ \A i \in Sessions :
             (/\ rec[i].received
              /\ rec[i].state = "recording" /\ rec'[i].state # "recording")
             => \/ \E pending \in 0..MaxChunkSize : ClickStop(pending)
                \/ \E pending \in 0..MaxChunkSize :
                      EncoderErrorHealth(i, pending)
      ]_vars

\* a health check has found the data of a healthy session stale, warned the
\* user and left the recorder recording
C35_Witness ==
    /\ HealthySession /\ isRecording
    /\ rec[mediaRecorder].state = "recording"
    /\ status = [msg |-> "Recording may be paused", isError |-> FALSE]
    /\ \E t \in timers : t.kind = "health" /\ t.id = recordingTimeout

\* a capture is running: the frame-polling fallback or an encoder
CaptureRunning ==
    fallbackRecording \/ \E i \in Sessions : rec[i].state = "recording"

\* C34: the frame-polling fallback and a recording encoder never run at the
\* same time, and after a click on the stop button no capture is running.
C34_OneCapture ==
    /\ [](~(fallbackRecording /\ \E i \in Sessions : rec[i].state = "recording"))
    /\ [][(\E pending \in 0..MaxChunkSize : ClickStop(pending))
             => ~CaptureRunning']_vars

(***************************************************************************)
(* The frame-polling fallback of part_000: startFallbackRecording,         *)
(* captureFallbackFrame, stopRecording in fallback mode and the callbacks  *)
(* of saveFallbackRecording.  SpecHealth never sets the timer that calls   *)
(* startFallbackRecording (see C1); SpecFallback enters the method as that *)
(* timer would and follows the handlers behind it.                         *)
(***************************************************************************)
FallbackFrame ==
    UNCHANGED <<surfVars, videoVars, rendererVars, layoutVars, renderVars,
                trackVars, shotVars, savedFile, lifeVars, setupVars, startPc,
                originalCanvasSize,
                now, noDataTimeouts>>

\* the body of the timer of checkRecordingHealth: startFallbackRecording
FallbackTimer ==
    /\ fallbackStarts = 0
    /\ ~isRecording /\ ~fallbackRecording
    /\ Apply(StartFallbackRecording(HState))
    /\ fallbackStarts' = fallbackStarts + 1
    /\ UNCHANGED reencoder
    /\ FallbackFrame

\* the interval of startFallbackRecording fires: captureFallbackFrame draws
\* the canvas and calls toBlob
CaptureFallbackFrame ==
    /\ fallbackInterval /\ fallbackRecording
    /\ reencoder.pendingBlobs < MaxPendingBlobs
    /\ fallbackFrames + reencoder.pendingBlobs < MaxFallbackFrames
    /\ reencoder' = [reencoder EXCEPT !.pendingBlobs = @ + 1]
    /\ Apply(HState)
    /\ UNCHANGED fallbackStarts
    /\ FallbackFrame

\* the callback of toBlob; ok: a blob was made
BlobReady(ok) ==
    /\ reencoder.pendingBlobs > 0
    /\ reencoder' = [reencoder EXCEPT !.pendingBlobs = @ - 1]
    /\ Apply(IF ok THEN [HState EXCEPT !.fallbackFrames = @ + 1] ELSE HState)
    /\ UNCHANGED fallbackStarts
    /\ FallbackFrame

\* a click on the stop button in fallback mode: stopRecording
StopFallbackClick ==
    /\ recordBtnHidden /\ fallbackRecording
    /\ Apply(StopRecordingHealth(HState, 0))
    /\ reencoder' = [reencoder EXCEPT !.buffered = fallbackFrames]
    /\ UNCHANGED fallbackStarts
    /\ FallbackFrame

\* drawNextFrame of saveFallbackRecording, for the frame list as it is now
DrawNextFrame(r) ==
    IF r.frameIndex < fallbackFrames
    THEN [r EXCEPT !.pc = "frameLoading"]
    ELSE [r EXCEPT !.pc = "none", !.state = "stopping"]   \* stop()

\* img.onload of saveFallbackRecording: the temporary recorder is created
\* and started, and drawNextFrame runs for the first time
FirstFrameLoaded ==
    /\ fallbackSave = "loading"
    /\ reencoder' = DrawNextFrame([reencoder EXCEPT !.state = "recording",
                                                    !.frameIndex = 0,
                                                    !.drawn = 0])
    /\ Apply([HState EXCEPT !.fallbackSave = "none"])
    /\ UNCHANGED fallbackStarts
    /\ FallbackFrame

\* img.onload of drawNextFrame: the frame is drawn and the next call of
\* drawNextFrame is set 100 ms ahead
FrameLoaded ==
    /\ reencoder.pc = "frameLoading"
    /\ reencoder' = [reencoder EXCEPT !.pc = "waiting",
                                      !.frameIndex = @ + 1,
                                      !.drawn = @ + 1]
    /\ Apply(HState)
    /\ UNCHANGED fallbackStarts
    /\ FallbackFrame

\* the timer of drawNextFrame fires
DrawNextFrameTimer ==
    /\ reencoder.pc = "waiting"
    /\ reencoder' = DrawNextFrame(reencoder)
    /\ Apply(HState)
    /\ UNCHANGED fallbackStarts
    /\ FallbackFrame

\* the temporary recorder has stopped: its dataavailable with a blob of the
\* given size, then its onstop (downloadRecording or the failure status)
ReencoderStopped(size) ==
    /\ reencoder.state = "stopping"
    /\ reencoder' = [reencoder EXCEPT !.state = "done"]
    /\ Apply(IF size > 0
             THEN ShowStatus([HState EXCEPT !.downloads = @ + 1],
                             "Recording saved!", FALSE)
             ELSE ShowStatus(HState,
                             "Fallback recording failed to create video",
                             TRUE))
    /\ UNCHANGED fallbackStarts
    /\ FallbackFrame

FallbackInit == HealthInit

FallbackNext ==
    \/ FallbackTimer
    \/ CaptureFallbackFrame
    \/ \E ok \in BOOLEAN : BlobReady(ok)
    \/ StopFallbackClick
    \/ FirstFrameLoaded
    \/ FrameLoaded
    \/ DrawNextFrameTimer
    \/ \E size \in 0..MaxChunkSize : ReencoderStopped(size)

SpecFallback == FallbackInit /\ [][FallbackNext]_vars

RestartPending ==
    \E t \in timers : t.kind = "restart"

\* C17: the first no-data timeout of a request leads to a restart of the
\* encoder and not to the fallback; from the second consecutive no-data
\* timeout on no restart of the encoder is scheduled.
C17_EscalationOrdered ==
    /\ noDataTimeouts = 1 => ~FallbackPending /\ fallbackStarts = 0
    /\ noDataTimeouts >= 2 => ~RestartPending

\* C19: between the first no-data timeout of a request and the automatic
\* restart that follows it no error status is shown.
C19_FirstTimeoutSilent ==
    noDataTimeouts = 1 /\ RestartPending => ~status.isError

(***************************************************************************)
(* Tracking stabilization of main.js: onTargetFound, onTargetLost,         *)
(* updateTrackingStabilization and addToHistory.  A pose is one coordinate *)
(* of the position and one of the rotation; the other coordinates are      *)
(* treated alike by the code.                                              *)
(***************************************************************************)
stabilizationDelay == 100
historySize == 5
confidenceThreshold == <<7, 10>>
smoothingFactor == <<3, 20>>

\* an addToHistory that keeps the oldest samples and drops the new one
AddToHistoryKeepOldest(history, value) ==
    IF Len(history) >= historySize THEN history ELSE Append(history, value)

\* addToHistory: push, then shift when the buffer is over its size
AddToHistory(history, value) ==
    LET pushed == Append(history, value)
    IN  IF Len(pushed) > historySize THEN Tail(pushed) ELSE pushed

\* the number nearest to x that a coordinate can hold
Rounded(x) == Frac((2 * x[1] * PoseGrid + x[2]) \div (2 * x[2]), PoseGrid)

RECURSIVE WeightedSum(_, _)
WeightedSum(history, k) ==
    IF k = 0 THEN FInt(0)
    ELSE FAdd(WeightedSum(history, k - 1),
              FMul(history[k], Frac(k, Len(history))))

RECURSIVE TotalWeight(_, _)
TotalWeight(n, k) ==
    IF k = 0 THEN FInt(0) ELSE FAdd(TotalWeight(n, k - 1), Frac(k, n))

\* calculateSmoothedPosition / calculateSmoothedRotation: the average of the
\* samples, sample i (from 1) weighted with i / length
CalculateSmoothed(history) ==
    IF Len(history) = 0 THEN FInt(0)
    ELSE Rounded(FDiv(WeightedSum(history, Len(history)),
                      TotalWeight(Len(history), Len(history))))

\* THREE lerp
Lerp(a, b, alpha) == Rounded(FAdd(a, FMul(FSub(b, a), alpha)))

\* a stability test that ignores the delay
IsStableAtOnce(t) == TRUE

\* isStable of updateTrackingStabilization at time t
IsStable(t) == t - lastStableTime > stabilizationDelay

\* the smoothed pose is applied in this frame
AppliesSmoothing ==
    IsStable(now) /\ FLt(confidenceThreshold, trackingConfidence)

TrackFrame ==
    UNCHANGED <<surfVars, videoVars, rendererVars, layoutVars, renderVars,
                recVars, startVars, shotVars, reencoder, savedFile, lifeVars,
                setupVars,
                recordingStartTime,
                lastDataTime, dataReceived, recordingAttempts,
                recordingTimeout, timers, fallbackRecording, fallbackFrames,
                fallbackInterval, fallbackSave, noDataTimeouts,
                fallbackStarts>>

\* onTargetFound
OnTargetFound ==
    /\ isTargetVisible' = TRUE
    /\ trackingConfidence' = FInt(1)
    /\ lastStableTime' = now
    /\ IF anchor
       THEN /\ targetPosition' = anchorPosition
            /\ targetRotation' = anchorRotation
            /\ positionHistory' = <<>>
            /\ rotationHistory' = <<>>
       ELSE UNCHANGED <<targetPosition, targetRotation, positionHistory,
                        rotationHistory>>
    /\ frames' = 0
    /\ UNCHANGED <<anchor, anchorPosition, anchorRotation, now>>
    /\ TrackFrame

\* an onTargetLost that leaves the buffers as they are
OnTargetLostKeeping ==
    /\ isTargetVisible' = FALSE
    /\ trackingConfidence' = FInt(0)
    /\ UNCHANGED <<positionHistory, rotationHistory>>
    /\ UNCHANGED <<anchor, lastStableTime, anchorPosition, anchorRotation,
                   targetPosition, targetRotation, frames, now>>
    /\ TrackFrame

\* onTargetLost
OnTargetLost ==
    /\ isTargetVisible' = FALSE
    /\ trackingConfidence' = FInt(0)
    /\ positionHistory' = <<>>
    /\ rotationHistory' = <<>>
    /\ UNCHANGED <<anchor, lastStableTime, anchorPosition, anchorRotation,
                   targetPosition, targetRotation, frames, now>>
    /\ TrackFrame

\* updateTrackingStabilization, called by render in every frame
UpdateTrackingStabilization ==
    /\ frames < MaxFrames
    /\ frames' = frames + 1
    /\ anchor /\ isTargetVisible
    /\ positionHistory' = AddToHistory(positionHistory, anchorPosition)
    /\ rotationHistory' = AddToHistory(rotationHistory, anchorRotation)
    /\ IF AppliesSmoothing
       THEN /\ targetPosition' = Lerp(targetPosition,
                                      CalculateSmoothed(positionHistory'),
                                      smoothingFactor)
            /\ targetRotation' = Lerp(targetRotation,
                                      CalculateSmoothed(rotationHistory'),
                                      smoothingFactor)
            /\ anchorPosition' = targetPosition'
            /\ anchorRotation' = targetRotation'
       ELSE UNCHANGED <<targetPosition, targetRotation, anchorPosition,
                        anchorRotation>>
    /\ UNCHANGED <<anchor, isTargetVisible, trackingConfidence,
                   lastStableTime, now>>
    /\ TrackFrame

\* the tracking engine reports a new pose of the target: the position p and
\* the rotation MaxPose - p
TrackerMoves(p) ==
    /\ anchor /\ isTargetVisible
    /\ <<FInt(p), FInt(MaxPose - p)>> # <<anchorPosition, anchorRotation>>
    /\ anchorPosition' = FInt(p)
    /\ anchorRotation' = FInt(MaxPose - p)
    /\ UNCHANGED <<anchor, isTargetVisible, trackingConfidence,
                   lastStableTime, positionHistory, rotationHistory,
                   targetPosition, targetRotation, frames, now>>
    /\ TrackFrame

\* Date.now() advances
ClockTick ==
    /\ now < MaxClockSteps * ClockStep
    /\ now' = now + ClockStep
    /\ UNCHANGED trackVars
    /\ TrackFrame

TrackInit ==
    /\ compositeCanvas = FALSE
    /\ canvasWidth = 0 /\ canvasHeight = 0
    /\ surface = ClearedSurface
    /\ videoElement = FALSE
    /\ videoWidth = 0 /\ videoHeight = 0
    /\ rendererWidth = 2 /\ rendererHeight = 1
    /\ isMobile = FALSE
    /\ innerWidth = 390 /\ innerHeight = 844
    /\ devicePixelRatio = <<3, 1>>
    /\ resizeTimeout = FALSE
    /\ RenderIdle /\ RecIdle /\ StartIdle /\ HealthIdle /\ ShotIdle
    /\ reencoder = NoReencoder /\ savedFile = NoFile /\ LifeIdle
    /\ SetupIdle
    /\ anchor \in BOOLEAN /\ isTargetVisible = FALSE
    /\ trackingConfidence = <<0, 1>> /\ lastStableTime = 0
    /\ positionHistory = <<>> /\ rotationHistory = <<>>
    /\ anchorPosition = <<0, 1>> /\ anchorRotation = <<0, 1>>
    /\ targetPosition = <<0, 1>> /\ targetRotation = <<0, 1>>
    /\ frames = 0

TrackNext ==
    \/ OnTargetFound
    \/ OnTargetLost
    \/ UpdateTrackingStabilization
    \/ \E p \in 0..MaxPose : TrackerMoves(p)
    \/ ClockTick

SpecTrack == TrackInit /\ [][TrackNext]_vars

\* a step of updateTrackingStabilization
FrameTick == frames' = frames + 1

\* C12: a frame changes the pose of the anchor only when more than the
\* stabilization delay (100 ms) has passed since the last onTargetFound and
\* the tracking confidence is above the threshold (0.7); a frame within the
\* delay leaves the pose of the anchor as it is and yet appends the pose to
\* both histories.
C12_StabilizationDelay ==
    [][FrameTick =>
          /\ <<anchorPosition, anchorRotation>>'
                 # <<anchorPosition, anchorRotation>>
             => /\ now - lastStableTime > stabilizationDelay
                /\ FLt(confidenceThreshold, trackingConfidence)
          /\ now - lastStableTime <= stabilizationDelay
             => /\ UNCHANGED <<anchorPosition, anchorRotation>>
                /\ Len(positionHistory') > 0
                /\ positionHistory'[Len(positionHistory')] = anchorPosition
                /\ Len(rotationHistory') > 0
                /\ rotationHistory'[Len(rotationHistory')] = anchorRotation
      ]_vars

\* a smoothed pose was written to the anchor in an earlier sighting, and the
\* target found again has frames within the delay
C12_Witness ==
    /\ isTargetVisible
    /\ anchorPosition[2] # 1
    /\ now - lastStableTime <= stabilizationDelay
    /\ frames > 0
    /\ Len(positionHistory) = frames

\* the last n elements of a sequence
LastSamples(seq, n) ==
    IF Len(seq) <= n THEN seq ELSE SubSeq(seq, Len(seq) - n + 1, Len(seq))

\* C13: both histories hold at most historySize (5) samples, and a frame
\* leaves in each the most recent historySize samples in the order of their
\* arrival: a sample appended to a full history drops the oldest one.
C13_HistoryBounded ==
    /\ [](/\ Len(positionHistory) <= historySize
          /\ Len(rotationHistory) <= historySize)
    /\ [][FrameTick =>
             /\ positionHistory' =
                    LastSamples(Append(positionHistory, anchorPosition),
                                historySize)
             /\ rotationHistory' =
                    LastSamples(Append(rotationHistory, anchorRotation),
                                historySize)
         ]_vars

\* more frames than the histories hold have been rendered in one sighting,
\* with samples that differ
C13_Witness ==
    /\ frames > historySize
    /\ Len(positionHistory) = historySize
    /\ Len(rotationHistory) = historySize
    /\ positionHistory[1] # positionHistory[historySize]

\* C14: whenever the target is not visible, the position history and the
\* rotation history are empty.
C14_LostMeansEmpty ==
    ~isTargetVisible => positionHistory = <<>> /\ rotationHistory = <<>>

\* the target was lost after frames had filled the histories
C14_Witness ==
    /\ ~isTargetVisible
    /\ frames > 0
    /\ positionHistory = <<>> /\ rotationHistory = <<>>

(***************************************************************************)
(* Screenshots of main.js: takeScreenshot, its animation-frame callback,   *)
(* captureFromCanvas and captureFromVideo.  The camera either has no       *)
(* metadata (readyState 0, frame size 0 x 0) or plays (readyState 4, a     *)
(* positive frame size).                                                   *)
(***************************************************************************)
HAVE_NOTHING == 0
HAVE_ENOUGH_DATA == 4

ShotFrame ==
    UNCHANGED <<rendererVars, layoutVars, renderVars, startVars, healthVars,
                trackVars, reencoder, savedFile, lifeVars, setupVars,
                mediaRecorder,
                recordedChunks,
                isRecording, rec, downloads, recordBtnHidden>>

\* the camera stream stops delivering (track ended, source replaced)
VideoStalls ==
    /\ videoElement /\ readyState # HAVE_NOTHING
    /\ readyState' = HAVE_NOTHING
    /\ videoWidth' = 0 /\ videoHeight' = 0
    /\ UNCHANGED <<videoElement, surfVars, screenshotPending, still, dataURL,
                   imageDownloads, status>>
    /\ ShotFrame

\* the camera stream plays with frames of w x h
VideoPlays(w, h) ==
    /\ videoElement /\ readyState = HAVE_NOTHING
    /\ readyState' = HAVE_ENOUGH_DATA
    /\ videoWidth' = w /\ videoHeight' = h
    /\ UNCHANGED <<videoElement, surfVars, screenshotPending, still, dataURL,
                   imageDownloads, status>>
    /\ ShotFrame

\* updateCompositeCanvas called by the render loop
ShotUpdateCompositeCanvas(found, drawThrows) ==
    /\ compositeCanvas
    /\ DoUpdateCompositeCanvas(found, drawThrows)
    /\ UNCHANGED <<compositeCanvas, canvasWidth, canvasHeight, videoWidth,
                   videoHeight, shotVars, status>>
    /\ ShotFrame

\* the still captureFromVideo makes of the current camera frame
StillFromVideo ==
    [source |-> "video", background |-> "none", hasVideo |-> TRUE,
     heldFrame |-> FALSE]

\* length of the data URL toDataURL gives for a canvas without pixels
EmptyDataURL == 6
\* below this length a data URL counts as an empty capture
minDataURLLength == 1000
\* lengths of the data URL of a canvas with pixels
DataURLLengths ==
    {minDataURLLength - 1, minDataURLLength, minDataURLLength + 1}

\* a validity check that lets data URLs of the threshold length fail
TooShortInclusive(len) == len <= minDataURLLength

\* dataURL.length < 1000 of captureFromCanvas and captureFromVideo
TooShort(len) == len < minDataURLLength

\* captureFromVideo; len: the length of the data URL of the temporary canvas
CaptureFromVideo(len) ==
    /\ dataURL' = len
    /\ IF TooShort(len)
       THEN /\ status' = [msg |-> "Video capture failed", isError |-> TRUE]
            /\ UNCHANGED <<still, imageDownloads>>
       ELSE /\ imageDownloads' = imageDownloads + 1
            /\ status' = [msg |-> "Screenshot saved!", isError |-> FALSE]
            /\ still' = StillFromVideo

\* takeScreenshot up to its return
TakeScreenshot(found, drawThrows, len) ==
    /\ screenshotPending.pc = "none"
    /\ imageDownloads < MaxStills
    /\ IF compositeCanvas
       THEN /\ DoUpdateCompositeCanvas(found, drawThrows)
            /\ screenshotPending' =
                  [pc |-> "decide",
                   heldFrame |-> /\ ~(videoWidth > 0 /\ videoHeight > 0)
                                 /\ surface.videoSize # <<0, 0>>]
            /\ UNCHANGED <<still, status, dataURL, imageDownloads>>
       ELSE IF videoElement /\ videoWidth > 0
       THEN /\ CaptureFromVideo(len)
            /\ UNCHANGED <<videoElement, surface, screenshotPending>>
       ELSE /\ screenshotPending' = [pc |-> "renderer", heldFrame |-> FALSE]
            /\ UNCHANGED <<videoElement, surface, still, status, dataURL,
                           imageDownloads>>
    /\ UNCHANGED <<compositeCanvas, canvasWidth, canvasHeight, videoWidth,
                   videoHeight, readyState>>
    /\ ShotFrame

\* a check that never finds video content
HasNoVideoContent == FALSE

\* hasVideoContent of the animation-frame callback of takeScreenshot
HasVideoContent ==
    IF isMobile
    THEN videoElement /\ (videoWidth > 0 \/ readyState >= 1)
    ELSE videoElement /\ videoWidth > 0 /\ videoHeight > 0

\* the animation-frame callback of takeScreenshot
ScreenshotFrame ==
    /\ screenshotPending.pc = "decide"
    /\ screenshotPending' =
          [screenshotPending EXCEPT
              !.pc = IF HasVideoContent THEN "composite" ELSE "renderer"]
    /\ UNCHANGED <<surfVars, videoVars, readyState, still, dataURL,
                   imageDownloads, status>>
    /\ ShotFrame

\* the canvas captureFromCanvas reads has no pixels
EmptyCanvas(method) ==
    IF method = "composite"
    THEN canvasWidth = 0 \/ canvasHeight = 0
    ELSE rendererWidth = 0 \/ rendererHeight = 0

\* the animation-frame callback of captureFromCanvas; len: the length of
\* the data URL toDataURL gives for a canvas with pixels
CaptureFromCanvas(len) ==
    /\ screenshotPending.pc \in {"composite", "renderer"}
    /\ screenshotPending' = NoShot
    /\ LET method == screenshotPending.pc
       IN  /\ dataURL' = IF EmptyCanvas(method) THEN EmptyDataURL ELSE len
           /\ IF TooShort(dataURL')
              THEN /\ status' = [msg |-> "Screenshot failed (" \o method \o ")",
                                 isError |-> TRUE]
                   /\ UNCHANGED <<still, imageDownloads>>
              ELSE /\ imageDownloads' = imageDownloads + 1
                   /\ status' = [msg |-> "Screenshot saved!",
                                 isError |-> FALSE]
                   /\ still' =
                         IF method = "composite"
                         THEN [source |-> "composite",
                               background |-> surface.background,
                               hasVideo |-> surface.videoSize # <<0, 0>>,
                               heldFrame |-> screenshotPending.heldFrame]
                         ELSE [source |-> "renderer",
                               background |-> "none",
                               hasVideo |-> FALSE,
                               heldFrame |-> screenshotPending.heldFrame]
    /\ UNCHANGED <<surfVars, videoVars, readyState>>
    /\ ShotFrame

ShotInit ==
    /\ compositeCanvas \in BOOLEAN
    /\ canvasWidth = (IF compositeCanvas THEN 2 ELSE 0)
    /\ canvasHeight = (IF compositeCanvas THEN 1 ELSE 0)
    /\ surface = ClearedSurface
    /\ videoElement = TRUE
    /\ videoWidth = 0 /\ videoHeight = 0
    /\ readyState = HAVE_NOTHING
    /\ rendererWidth = 2 /\ rendererHeight = 1
    /\ isMobile \in BOOLEAN
    /\ innerWidth = 2 /\ innerHeight = 1
    /\ devicePixelRatio = <<1, 1>>
    /\ resizeTimeout = FALSE
    /\ RenderIdle /\ RecIdle /\ StartIdle /\ HealthIdle /\ TrackIdle
    /\ reencoder = NoReencoder /\ savedFile = NoFile /\ LifeIdle
    /\ SetupIdle
    /\ screenshotPending = NoShot /\ still = NoStill
    /\ dataURL = 0 /\ imageDownloads = 0

ShotNext ==
    \/ VideoStalls
    \/ \E w \in Dims, h \in Dims : VideoPlays(w, h)
    \/ \E found \in BOOLEAN, drawThrows \in BOOLEAN :
          ShotUpdateCompositeCanvas(found, drawThrows)
    \/ \E found \in BOOLEAN, drawThrows \in BOOLEAN, len \in DataURLLengths :
          TakeScreenshot(found, drawThrows, len)
    \/ ScreenshotFrame
    \/ \E len \in DataURLLengths : CaptureFromCanvas(len)

SpecShot == ShotInit /\ [][ShotNext]_vars

\* C16: a still of a screenshot that was requested while the video had no
\* frame size and the composite surface showed a camera frame shows a camera
\* frame.
C16_PreviousFrameKept ==
    still.heldFrame => still.hasVideo

\* the video element has a decoded frame
LiveFrame == videoElement /\ videoWidth > 0 /\ videoHeight > 0

\* C23: a screenshot takes the composite surface when it exists and the
\* video has a frame, the video frame itself when there is no composite
\* surface and the video has a frame, and the renderer canvas only when the
\* video has no frame.
C23_SourcePreference ==
    [][/\ (\E found \in BOOLEAN, drawThrows \in BOOLEAN,
                 len \in DataURLLengths :
              TakeScreenshot(found, drawThrows, len))
          => IF compositeCanvas
             THEN screenshotPending'.pc = "decide"
             ELSE IF LiveFrame
             THEN /\ screenshotPending'.pc = "none"
                  /\ status'.msg \in {"Screenshot saved!",
                                      "Video capture failed"}
                  /\ ~TooShort(dataURL') => still'.source = "video"
             ELSE screenshotPending'.pc = "renderer"
       /\ ScreenshotFrame
          => screenshotPending'.pc =
                IF compositeCanvas /\ LiveFrame THEN "composite"
                                                ELSE "renderer"
      ]_vars

\* a still was taken of the composite surface with a camera frame on it
C23_Witness ==
    /\ still.source = "composite" /\ still.hasVideo
    /\ status = [msg |-> "Screenshot saved!", isError |-> FALSE]
    /\ LiveFrame

\* a step that extracts the data URL of the composite surface or of the
\* video frame, the sources that are not the last of the order
CaptureOfEarlierSource ==
    \/ /\ screenshotPending.pc = "composite"
       /\ \E len \in DataURLLengths : CaptureFromCanvas(len)
    \/ /\ ~compositeCanvas /\ videoElement /\ videoWidth > 0
       /\ \E found \in BOOLEAN, drawThrows \in BOOLEAN,
             len \in DataURLLengths : TakeScreenshot(found, drawThrows, len)

\* C24: a step in which the data URL of the composite surface or of the
\* video frame is below the threshold shows no failure: the renderer canvas
\* has not been tried yet.
C24_NextSourceTried ==
    [][CaptureOfEarlierSource /\ dataURL' < minDataURLLength
          => ~status'.isError]_vars

\* a step that extracts a data URL, on any of the three paths
CaptureStep ==
    \/ \E len \in DataURLLengths : CaptureFromCanvas(len)
    \/ /\ ~compositeCanvas /\ videoElement /\ videoWidth > 0
       /\ \E found \in BOOLEAN, drawThrows \in BOOLEAN,
             len \in DataURLLengths : TakeScreenshot(found, drawThrows, len)

\* C25: a capture whose data URL is shorter than 1000 characters calls
\* downloadImage not at all, leaves the last still and shows an error; a
\* capture whose data URL has 1000 characters or more calls downloadImage
\* once and shows "Screenshot saved!".
C25_ThresholdDecides ==
    [][CaptureStep
          => IF dataURL' < minDataURLLength
             THEN /\ imageDownloads' = imageDownloads
                  /\ still' = still
                  /\ status'.isError
             ELSE /\ imageDownloads' = imageDownloads + 1
                  /\ status' = [msg |-> "Screenshot saved!",
                                isError |-> FALSE]
      ]_vars

\* a data URL of exactly the threshold length was downloaded
C25_Witness ==
    /\ dataURL = minDataURLLength
    /\ imageDownloads = 1
    /\ status = [msg |-> "Screenshot saved!", isError |-> FALSE]

(***************************************************************************)
(* Pause and resume of main.js while the application runs: the render      *)
(* loop, the update loop of a recording, onAppPause, onAppResume with its  *)
(* 500 ms timer and the timer of setupCompositeCanvas.  Timers of one kind *)
(* that are pending together count as one.                                 *)
(***************************************************************************)
\* a restart on every resume, whatever the engine reports
StartAlways == mindarThree

\* the condition under which reinitializeVideoAndCanvas calls start
StartNeeded == mindarThree /\ ~isStarted

\* one callback of recordingUpdateLoop
RecordingUpdateLoop(found, drawThrows) ==
    /\ recordingLoop
    /\ IF isRecording /\ compositeCanvas
       THEN /\ DoUpdateCompositeCanvas(found, drawThrows)
            /\ UNCHANGED recordingLoop
       ELSE /\ recordingLoop' = FALSE
            /\ UNCHANGED <<videoElement, surface>>
    /\ UNCHANGED <<compositeCanvas, canvasWidth, canvasHeight, videoWidth,
                   videoHeight>>
    /\ UNCHANGED <<initPc, uiInstalled, unhandledRejection, mindarThree,
                   isStarted, startInvoked, setupTimer, videoInDom, waitPc,
                   attempts>>
    /\ UNCHANGED <<rendererVars, mediaVars, layoutVars, renderVars, recVars,
                   startVars, healthVars>>

\* the 500 ms timer of onAppResume: reinitializeVideoAndCanvas.
\* setupCompositeCanvas removes the canvas and arms its timer, the forced
\* render draws the scene, updateCanvasSize finds no canvas and returns,
\* and start is awaited when the engine is not started; reportsStarted: what
\* isStarted is after that call (a rejection is caught)
ReinitializeAndRestart(reportsStarted) ==
    /\ resumeTimer
    /\ resumeTimer' = FALSE
    /\ compositeCanvas' = FALSE
    /\ canvasWidth' = 0 /\ canvasHeight' = 0
    /\ surface' = [ClearedSurface EXCEPT !.size = <<0, 0>>]
    /\ setupTimer' = "create"
    /\ startInvoked' = StartNeeded
    /\ isStarted' = IF StartNeeded THEN reportsStarted ELSE isStarted
    /\ UNCHANGED <<started, pendingRender, isAppActive, ticksSinceFrame,
                   ticksSinceCanvas, lastFrame>>
    /\ UNCHANGED <<initPc, uiInstalled, unhandledRejection, mindarThree,
                   recordingLoop, videoInDom, waitPc, attempts>>
    /\ UNCHANGED <<videoVars, rendererVars, mediaVars, layoutVars, recVars,
                   startVars, healthVars>>

\* the timer of setupCompositeCanvas ("create"), and the timer that calls
\* setupCompositeCanvas again when no video element was found ("retry")
SetupCompositeCanvasTimer ==
    /\ setupTimer # "none"
    /\ IF setupTimer = "retry"
       THEN /\ setupTimer' = "create"
            /\ compositeCanvas' = FALSE
            /\ canvasWidth' = 0 /\ canvasHeight' = 0
            /\ surface' = [ClearedSurface EXCEPT !.size = <<0, 0>>]
            /\ UNCHANGED videoElement
            /\ UNCHANGED <<resizeListenerAdded, resizeListeners>>
       ELSE /\ videoElement' = videoInDom
            /\ IF videoInDom
               THEN /\ setupTimer' = "none"
                    /\ compositeCanvas' = TRUE
                    /\ \E n \in NormalCanvasSizes :
                          /\ canvasWidth' = n[1] /\ canvasHeight' = n[2]
                          /\ surface' = ClearedSurfaceOf(n[1], n[2])
                    /\ AddResizeListeners
               ELSE /\ setupTimer' = "retry"
                    /\ UNCHANGED <<surfVars, resizeListenerAdded,
                                   resizeListeners>>
    /\ UNCHANGED <<videoWidth, videoHeight>>
    /\ UNCHANGED <<initPc, uiInstalled, unhandledRejection, mindarThree,
                   isStarted, startInvoked, recordingLoop, videoInDom, waitPc,
                   attempts>>
    /\ UNCHANGED <<rendererVars, trackVars, shotVars, reencoder, savedFile,
                   setupTimers, layoutVars, renderVars, recVars, startVars,
                   healthVars>>

\* the application runs; a recording of the composite canvas may be under
\* way, on a mobile device with the canvas at its recording size
ResumeInit ==
    /\ isMobile \in BOOLEAN
    /\ innerWidth = 390 /\ innerHeight = 844
    /\ devicePixelRatio = <<3, 1>>
    /\ resizeTimeout = FALSE
    /\ isRecording \in BOOLEAN
    /\ compositeCanvas = TRUE
    /\ \E n \in NormalCanvasSizes :
          IF isMobile /\ isRecording
          THEN /\ originalCanvasSize = n
               /\ \E o \in OptimizedCanvasSizes :
                     canvasWidth = o[1] /\ canvasHeight = o[2]
          ELSE /\ originalCanvasSize = NullSize
               /\ canvasWidth = n[1] /\ canvasHeight = n[2]
    /\ surface = ClearedSurface
    /\ videoInDom \in BOOLEAN
    /\ videoElement = videoInDom
    /\ videoWidth = MaxDim /\ videoHeight = 1
    /\ rendererWidth = 2 /\ rendererHeight = 1
    /\ started = TRUE /\ pendingRender = 1 /\ isAppActive = TRUE
    /\ ticksSinceFrame = 0 /\ ticksSinceCanvas = 0 /\ lastFrame = "rendered"
    /\ resumeTimer = FALSE
    /\ IF isRecording
       THEN /\ mediaRecorder = 1
            /\ rec = <<[state |-> "recording", stopPending |-> FALSE,
                        pendingData |-> 0, mimeType |-> "video/webm",
                        trackLive |-> TRUE]>>
            /\ status = [msg |-> "Recording started", isError |-> FALSE]
            /\ startPc = <<"done">> /\ outcome = <<"none">>
            /\ nextSession = 2
       ELSE /\ mediaRecorder = 0 /\ rec = <<>> /\ status = NoStatus
            /\ startPc = <<>> /\ outcome = <<>> /\ nextSession = 1
    /\ recordedChunks = <<>> /\ downloads = 0
    /\ recordBtnHidden = isRecording
    /\ HealthIdle /\ TrackIdle /\ ShotIdle /\ SetupIdle
    /\ reencoder = NoReencoder /\ savedFile = NoFile
    /\ initPc = "done" /\ uiInstalled = TRUE /\ unhandledRejection = FALSE
    /\ mindarThree = TRUE /\ isStarted \in BOOLEAN /\ startInvoked = FALSE
    /\ setupTimer = "none" /\ recordingLoop = isRecording
    /\ waitPc = "none" /\ attempts = 0

\* pause, resume and the timers behind a resume
ResumeNext ==
    \/ OnAppPause
    \/ OnAppResume
    \/ \E reportsStarted \in BOOLEAN : ReinitializeAndRestart(reportsStarted)
    \/ SetupCompositeCanvasTimer

\* timers that are due fire: weak fairness of both timers, that of the
\* timer of setupCompositeCanvas with its enabling condition written out
SpecResume ==
    /\ ResumeInit /\ [][ResumeNext]_vars
    /\ WF_vars(\E reportsStarted \in BOOLEAN :
                   ReinitializeAndRestart(reportsStarted))
    /\ \/ []<>(setupTimer = "none")
       \/ []<><<SetupCompositeCanvasTimer>>_vars

\* the same with the render loop and the update loop of the recording
PauseNext ==
    \/ \E early \in BOOLEAN, throwAt \in ThrowStages \cup {"none"},
          found \in BOOLEAN, drawThrows \in BOOLEAN :
           RenderCallback(early, throwAt, found, drawThrows)
    \/ \E found \in BOOLEAN, drawThrows \in BOOLEAN :
          RecordingUpdateLoop(found, drawThrows)
    \/ OnAppPause
    \/ OnAppResume
    \/ \E reportsStarted \in BOOLEAN : ReinitializeAndRestart(reportsStarted)
    \/ SetupCompositeCanvasTimer

SpecPause == ResumeInit /\ [][PauseNext]_vars

\* a step that does the work of a frame: a render callback that gets past
\* the pause test, or a callback of the recording loop that renders and
\* composes
FrameWork ==
    \/ /\ \E early \in BOOLEAN, throwAt \in ThrowStages \cup {"none"},
             found \in BOOLEAN, drawThrows \in BOOLEAN :
              RenderCallback(early, throwAt, found, drawThrows)
       /\ lastFrame' \notin {"skipped", "paused"}
    \/ /\ isRecording /\ compositeCanvas
       /\ \E found \in BOOLEAN, drawThrows \in BOOLEAN :
             RecordingUpdateLoop(found, drawThrows)

\* C26: while isAppActive is false no step does the work of a frame.
C26_PausedNoFrameWork ==
    [][~isAppActive => ~FrameWork]_vars

\* C33: while an encoder records, the composite canvas its stream was
\* captured from stays the composite canvas of the application: no step
\* removes it.
C33_RecordedCanvasKept ==
    [][(\E i \in Sessions : rec[i].state = "recording")
          => (compositeCanvas => compositeCanvas')]_vars

\* the composite canvas made after a resume: there is one, of the size of
\* updateCanvasSize, and no timer of the resume is pending
CanvasRecreated ==
    /\ ~resumeTimer /\ setupTimer = "none"
    /\ compositeCanvas
    /\ <<canvasWidth, canvasHeight>> \in NormalCanvasSizes

\* C27: reinitializeVideoAndCanvas discards the composite canvas and calls
\* start exactly when the engine is set and not started; when no further
\* pause or resume arrives and the container holds a video element, a
\* resume leads to a composite canvas of the size of updateCanvasSize.
C27_ResumeRecreates ==
    /\ [][(\E reportsStarted \in BOOLEAN :
              ReinitializeAndRestart(reportsStarted))
             => /\ ~compositeCanvas' /\ setupTimer' = "create"
                /\ startInvoked' = (mindarThree /\ ~isStarted)]_vars
    /\ (<>[][~OnAppResume /\ ~OnAppPause]_vars)
          => ((resumeTimer /\ videoInDom) ~> CanvasRecreated)

\* after a resume the canvas was made again and the engine was started
C27_Witness ==
    /\ CanvasRecreated
    /\ startInvoked /\ isStarted

(***************************************************************************)
(* waitForVideoReady of main.js, polled while the camera starts and stops  *)
(* and while a resume sets the composite canvas up again.                  *)
(***************************************************************************)
\* maxAttempts of waitForVideoReady
MaxAttempts(mobile) == IF mobile THEN 50 ELSE 30

\* isReady of checkVideoReady
IsReady ==
    IF isMobile
    THEN (videoWidth > 0 /\ videoHeight > 0) \/ readyState >= 1
    ELSE videoWidth > 0 /\ videoHeight > 0 /\ readyState >= 2

\* checkVideoReady with a video element: the position of waitForVideoReady
\* after the attempt that makes the count n
AfterCheck(n) ==
    IF IsReady \/ n >= MaxAttempts(isMobile) THEN "resolved" ELSE "polling"

WaitFrame ==
    UNCHANGED <<surfVars, rendererVars, mediaVars, layoutVars, renderVars,
                recVars, startVars, healthVars, initPc, uiInstalled,
                unhandledRejection, mindarThree, isStarted, startInvoked,
                setupTimer, recordingLoop>>

\* startRecording reaches `if (this.videoElement) await
\* this.waitForVideoReady()`: the promise is made and checkVideoReady runs
\* for the first time
WaitForVideoReady ==
    /\ waitPc \in {"none", "resolved"}
    /\ videoElement
    /\ attempts' = 1
    /\ waitPc' = AfterCheck(1)
    /\ UNCHANGED <<videoVars, videoInDom>>
    /\ WaitFrame

\* the 100 ms timer of checkVideoReady; without a video element the read of
\* this.videoElement.videoWidth throws in the timer callback and the
\* promise is never resolved
CheckVideoReady ==
    /\ waitPc = "polling"
    /\ IF videoElement
       THEN /\ attempts' = attempts + 1
            /\ waitPc' = AfterCheck(attempts + 1)
       ELSE /\ attempts' = attempts + 1
            /\ waitPc' = "thrown"
    /\ UNCHANGED <<videoVars, videoInDom>>
    /\ WaitFrame

\* the tracking engine takes its video element out of the container
VideoLeavesContainer ==
    /\ videoInDom
    /\ videoInDom' = FALSE
    /\ UNCHANGED <<videoVars, waitPc, attempts>>
    /\ WaitFrame

\* the tracking engine puts a video element into the container
VideoEntersContainer ==
    /\ ~videoInDom
    /\ videoInDom' = TRUE
    /\ UNCHANGED <<videoVars, waitPc, attempts>>
    /\ WaitFrame

WaitInit == ResumeInit /\ ~isRecording

WaitNext ==
    \/ WaitForVideoReady
    \/ CheckVideoReady
    \/ VideoStalls
    \/ VideoPlays(MaxDim, 1)
    \/ VideoLeavesContainer
    \/ VideoEntersContainer
    \/ OnAppResume
    \/ \E reportsStarted \in BOOLEAN : ReinitializeAndRestart(reportsStarted)
    \/ SetupCompositeCanvasTimer

\* the timer of checkVideoReady fires when it is due
SpecWait == WaitInit /\ [][WaitNext]_vars /\ WF_vars(CheckVideoReady)

\* C28: a pending waitForVideoReady is resolved in the end, and never makes
\* more than maxAttempts attempts.
C28_WaitCompletes ==
    /\ [](attempts <= MaxAttempts(isMobile))
    /\ (waitPc = "polling") ~> (waitPc = "resolved")

(***************************************************************************)
(* Start-up of main.js: init with setupAR, preloadModel, setupUI and the   *)
(* startAR it calls without awaiting it, then the render loop and the      *)
(* handlers setupUI installed.                                             *)
(***************************************************************************)
InitFrame ==
    UNCHANGED <<rendererVars, mediaVars, layoutVars, startVars, healthVars,
                mediaRecorder, recordedChunks, isRecording, rec, downloads,
                recordBtnHidden, startInvoked, recordingLoop, waitPc,
                attempts>>

\* init up to `await this.preloadModel()`: setupAR creates the engine;
\* throws: the constructor of the engine throws, which init catches
InitSetupAR(throws) ==
    /\ initPc = "init"
    /\ IF throws
       THEN /\ initPc' = "failed"
            /\ status' = [msg |-> "Failed to initialize AR", isError |-> TRUE]
            /\ UNCHANGED mindarThree
       ELSE /\ initPc' = "preloadModel"
            /\ mindarThree' = TRUE
            /\ UNCHANGED status
    /\ UNCHANGED <<surfVars, videoVars, renderVars, uiInstalled,
                   unhandledRejection, isStarted, setupTimer, videoInDom>>
    /\ InitFrame

\* the loader of preloadModel settles; preloadModel catches a failed load
\* and shows it, init goes on with setupUI and calls startAR, which runs up
\* to `await this.mindarThree.start()`
ModelLoadSettles(loaded) ==
    /\ initPc = "preloadModel"
    /\ initPc' = "awaitStart"
    /\ status' = IF loaded THEN status
                 ELSE [msg |-> "Failed to load 3D model", isError |-> TRUE]
    /\ uiInstalled' = TRUE
    /\ UNCHANGED <<surfVars, videoVars, renderVars, mindarThree,
                   unhandledRejection, isStarted, setupTimer, videoInDom>>
    /\ InitFrame

\* the start of the tracking engine settles.  When it is fulfilled startAR
\* goes on with setupCompositeCanvas and the first render; when it is
\* rejected, or that render throws, the promise of startAR is rejected, and
\* init, which did not await it, has returned
EngineStartSettles(fulfilled, throwAt) ==
    /\ initPc = "awaitStart"
    /\ IF fulfilled
       THEN /\ initPc' = "done"
            /\ isStarted' = TRUE
            /\ videoInDom' = TRUE
            /\ setupTimer' = "create"
            /\ started' = TRUE
            /\ RenderBody(0, FrameTicks + 1, CanvasTicks + 1, FALSE, throwAt,
                          FALSE, FALSE)
            /\ unhandledRejection' = (throwAt \in ThrowStages)
       ELSE /\ initPc' = "startFailed"
            /\ unhandledRejection' = TRUE
            /\ UNCHANGED <<isStarted, videoInDom, setupTimer, started,
                           pendingRender, ticksSinceFrame, ticksSinceCanvas,
                           lastFrame, videoElement, surface>>
    /\ UNCHANGED <<compositeCanvas, canvasWidth, canvasHeight, videoWidth,
                   videoHeight, isAppActive, resumeTimer, status, mindarThree,
                   uiInstalled>>
    /\ InitFrame

\* the state after the constructor, before init runs
InitInit ==
    /\ compositeCanvas = FALSE
    /\ canvasWidth = 0 /\ canvasHeight = 0
    /\ surface = ClearedSurface
    /\ videoElement = FALSE
    /\ videoWidth = 0 /\ videoHeight = 0
    /\ rendererWidth = 2 /\ rendererHeight = 1
    /\ isMobile \in BOOLEAN
    /\ innerWidth = 390 /\ innerHeight = 844
    /\ devicePixelRatio = <<3, 1>>
    /\ resizeTimeout = FALSE
    /\ RenderIdle /\ RecIdle /\ StartIdle /\ HealthIdle /\ TrackIdle
    /\ ShotIdle /\ reencoder = NoReencoder /\ savedFile = NoFile
    /\ SetupIdle
    /\ initPc = "init" /\ uiInstalled = FALSE /\ unhandledRejection = FALSE
    /\ mindarThree = FALSE /\ isStarted = FALSE /\ startInvoked = FALSE
    /\ setupTimer = "none" /\ recordingLoop = FALSE /\ videoInDom = FALSE
    /\ waitPc = "none" /\ attempts = 0

InitNext ==
    \/ \E throws \in BOOLEAN : InitSetupAR(throws)
    \/ \E loaded \in BOOLEAN : ModelLoadSettles(loaded)
    \/ \E fulfilled \in BOOLEAN, throwAt \in ThrowStages \cup {"none"} :
          EngineStartSettles(fulfilled, throwAt)
    \/ \E early \in BOOLEAN, throwAt \in ThrowStages \cup {"none"},
          found \in BOOLEAN, drawThrows \in BOOLEAN :
           RenderCallback(early, throwAt, found, drawThrows)
    \/ SetupCompositeCanvasTimer
    \/ uiInstalled /\ OnAppPause
    \/ uiInstalled /\ OnAppResume
    \/ \E reportsStarted \in BOOLEAN : ReinitializeAndRestart(reportsStarted)

SpecInit == InitInit /\ [][InitNext]_vars

\* C29: when the model failed to load, or the tracking engine failed to
\* start, an error status is shown, the handlers of setupUI are installed
\* and no rejection is left unhandled.
C29_AcquisitionFailureHandled ==
    /\ (initPc = "awaitStart" /\ status.msg = "Failed to load 3D model")
          => status.isError /\ uiInstalled /\ ~unhandledRejection
    /\ initPc = "startFailed"
          => status.isError /\ uiInstalled /\ ~unhandledRejection

\* C37: reinitializeVideoAndCanvas does not call the start of the tracking
\* engine while the start that startAR called is still in flight, nor when
\* the engine has started.
C37_StartOnce ==
    [][(/\ \E reportsStarted \in BOOLEAN :
             ReinitializeAndRestart(reportsStarted)
        /\ startInvoked')
          => ~isStarted /\ initPc # "awaitStart"]_vars

(***************************************************************************)
(* The runs of setupCompositeCanvas of main.js with every pending timer    *)
(* counted: the 500 ms timers of onAppResume, the timers that create the   *)
(* canvas and the retry timers set when no video element is found.         *)
(* SpecResume counts pending timers of one kind as one; here several       *)
(* resume events can have their timers pending together.                   *)
(***************************************************************************)
SetupFrame ==
    UNCHANGED <<videoWidth, videoHeight, rendererVars, layoutVars, recVars,
                startVars, healthVars, trackVars, shotVars, reencoder,
                savedFile, started, pendingRender, ticksSinceFrame,
                ticksSinceCanvas, lastFrame, resumeTimer, initPc,
                uiInstalled, unhandledRejection, mindarThree, setupTimer,
                recordingLoop, videoInDom, waitPc, attempts>>

\* the number of pending timers
PendingSetupTimers ==
    setupTimers.resume + setupTimers.create + setupTimers.retry

\* the first lines of setupCompositeCanvas: the canvas is removed
RemoveCanvas ==
    /\ compositeCanvas' = FALSE
    /\ canvasWidth' = 0 /\ canvasHeight' = 0
    /\ surface' = [ClearedSurface EXCEPT !.size = <<0, 0>>]

\* a visibilitychange, focus or pageshow event: onAppResume sets its timer
ResumeEvent ==
    /\ PendingSetupTimers < MaxSetupTimers
    /\ isAppActive' = TRUE
    /\ setupTimers' = [setupTimers EXCEPT !.resume = @ + 1]
    /\ UNCHANGED <<surfVars, videoElement, isStarted, startInvoked,
                   resizeListenerAdded, resizeListeners>>
    /\ SetupFrame

\* a timer of onAppResume fires: reinitializeVideoAndCanvas, whose
\* setupCompositeCanvas removes the canvas and sets a timer
ResumeTimerFires(reportsStarted) ==
    /\ setupTimers.resume > 0
    /\ setupTimers' = [setupTimers EXCEPT !.resume = @ - 1,
                                          !.create = @ + 1]
    /\ RemoveCanvas
    /\ startInvoked' = StartNeeded
    /\ isStarted' = IF StartNeeded THEN reportsStarted ELSE isStarted
    /\ UNCHANGED <<videoElement, isAppActive, resizeListenerAdded,
                   resizeListeners>>
    /\ SetupFrame

\* a timer of setupCompositeCanvas fires: without a video element in the
\* container it sets the retry timer, else it creates and sizes the canvas
\* and registers the listeners
CreateTimerFires ==
    /\ setupTimers.create > 0
    /\ videoElement' = videoInDom
    /\ IF videoInDom
       THEN /\ setupTimers' = [setupTimers EXCEPT !.create = @ - 1]
            /\ compositeCanvas' = TRUE
            /\ \E n \in NormalCanvasSizes :
                  /\ canvasWidth' = n[1] /\ canvasHeight' = n[2]
                  /\ surface' = ClearedSurfaceOf(n[1], n[2])
            /\ AddResizeListeners
       ELSE /\ setupTimers' = [setupTimers EXCEPT !.create = @ - 1,
                                                  !.retry = @ + 1]
            /\ UNCHANGED <<surfVars, resizeListenerAdded, resizeListeners>>
    /\ UNCHANGED <<isAppActive, isStarted, startInvoked>>
    /\ SetupFrame

\* a retry timer fires: setupCompositeCanvas runs again
RetryTimerFires ==
    /\ setupTimers.retry > 0
    /\ setupTimers' = [setupTimers EXCEPT !.retry = @ - 1, !.create = @ + 1]
    /\ RemoveCanvas
    /\ UNCHANGED <<videoElement, isAppActive, isStarted, startInvoked,
                   resizeListenerAdded, resizeListeners>>
    /\ SetupFrame

\* startAR has called setupCompositeCanvas for the first time: its timer
\* is pending, no canvas and no listener exists yet
SetupInit ==
    /\ compositeCanvas = FALSE
    /\ canvasWidth = 0 /\ canvasHeight = 0
    /\ surface = ClearedSurface
    /\ videoElement = FALSE
    /\ videoWidth = 0 /\ videoHeight = 0
    /\ rendererWidth = 2 /\ rendererHeight = 1
    /\ isMobile \in BOOLEAN
    /\ innerWidth = 390 /\ innerHeight = 844
    /\ devicePixelRatio = <<3, 1>>
    /\ resizeTimeout = FALSE
    /\ started = TRUE /\ pendingRender = 1 /\ isAppActive = TRUE
    /\ ticksSinceFrame = 0 /\ ticksSinceCanvas = 0 /\ lastFrame = "rendered"
    /\ resumeTimer = FALSE
    /\ RecIdle /\ StartIdle /\ HealthIdle /\ TrackIdle /\ ShotIdle
    /\ reencoder = NoReencoder /\ savedFile = NoFile
    /\ initPc = "done" /\ uiInstalled = TRUE /\ unhandledRejection = FALSE
    /\ mindarThree = TRUE /\ isStarted \in BOOLEAN /\ startInvoked = FALSE
    /\ setupTimer = "none" /\ recordingLoop = FALSE
    /\ videoInDom \in BOOLEAN
    /\ waitPc = "none" /\ attempts = 0
    /\ resizeListenerAdded = FALSE /\ resizeListeners = 0
    /\ setupTimers = [resume |-> 0, create |-> 1, retry |-> 0]

SetupNext ==
    \/ ResumeEvent
    \/ \E reportsStarted \in BOOLEAN : ResumeTimerFires(reportsStarted)
    \/ CreateTimerFires
    \/ RetryTimerFires
    \/ VideoLeavesContainer
    \/ VideoEntersContainer

SpecSetup == SetupInit /\ [][SetupNext]_vars

\* C38: the resize listener and the orientationchange listener are
\* registered at most once, whatever the number of runs of
\* setupCompositeCanvas: the window has one of each exactly when
\* resizeListenerAdded is set, and none before.
C38_ListenersOnce ==
    resizeListeners = (IF resizeListenerAdded THEN 1 ELSE 0)

\* a timer of setupCompositeCanvas has made the canvas and registered the
\* listeners while another one, set by a later run, is still pending
C38_Witness ==
    /\ compositeCanvas /\ resizeListeners = 1
    /\ setupTimers.create >= 1

====
